---- MODULE Spec2Model ----
(***************************************************************************)
(* Verification model of the HMAS bridge layer (kovacsalex95/hhl-mas):     *)
(*   - tools/lib/context.py         ContextAggregator                      *)
(*   - tools/lib/gemini_provider.py GeminiProvider                         *)
(*   - tools/lib/interface.py       LeadDevInterface (all three modes)     *)
(*   - tools/lib/config.py          Config                                 *)
(*   - tools/fetch_next.py          archive_milestone, main                *)
(* Each component has its own specification (SpecAgg, SpecApi,             *)
(* SpecInterface, SpecConfig, SpecArchive, SpecFetch) over the shared      *)
(* variables; the variables of the other components stay at their idle     *)
(* values.                                                                 *)
(***************************************************************************)
EXTENDS Integers, Sequences, FiniteSets, TLC

VARIABLES
    \* ---- ContextAggregator (context.py)
    max_tokens,       \* Config.max_context_tokens
    architecture_file,\* [exists, readable, name, text]
    roadmap_file,     \* [exists, readable, name, text]
    milestones_dir,   \* [exists, files]: files is the set of names present
    ag_pc,            \* "ready" | "returned"
    ag_args,          \* arguments of the aggregate call
    context,          \* the dict aggregate returns: key -> text
    ag_documents,     \* `documents` of aggregate: what _select_documents returned
    ag_aggregated,    \* what _aggregate_documents returned for them
    \* ---- GeminiProvider / LeadDevInterface in API mode
    api_key_env,      \* os.getenv("GEMINI_API_KEY"): [set, value]
    genai_installed,  \* whether `from google import genai` succeeds
    log_writable,     \* whether the log sink can be appended to
    cfg_retry,        \* GeminiConfig retry settings: [retry_count, retry_delay]
    mode,             \* LeadDevInterface._mode
    gemini_provider,  \* LeadDevInterface._gemini_provider: [created, api_key, client]
    api_pc,           \* "idle" | "call" | "sleep" | "done"
    api_op,           \* the interface operation in progress and its arguments
    attempt,          \* loop variable of the retry loop
    last_error,       \* last_error of GeminiProvider.query (<<>> is None)
    events,           \* generate_content calls and sleeps of the operation, in order
    raised,           \* exception that left the provider call (<<>> if none)
    response,         \* LeadDevResponse returned (<<>> while none)
    log,              \* lines appended to the log sink
    ops_done,         \* interface operations completed on this instance
    stdin,            \* the lines sys.stdin still holds; input() raises EOFError at its end
    \* ---- fetch_next.py
    ms_files,         \* the milestones directory: file name -> content
    hist_files,       \* the history directory: file name -> content
    today,            \* datetime.now(timezone.utc) as YYYYMMDD
    args,             \* parsed arguments: [milestone, dry_run, force, no_archive]
    f_pc,             \* position in main
    cur,              \* milestone_id, milestone_path, milestone_num of main
    prompts,          \* confirm_action prompts issued, each with its answer
    steps,            \* what the run has done: archive, draft, write
    draft,            \* milestone_content and suggested_title
    next_path,        \* the file name main writes to
    exit_code,        \* return value of main (-1 while it runs)
    archive_results,  \* results of the archive_milestone calls made
    \* ---- config.py, and the construction of LeadDevInterface
    yaml_available,   \* YAML_AVAILABLE: whether `import yaml` succeeded
    cfg_files,        \* the places a config file is looked for: path -> file
    environ,          \* os.environ: the HMAS_* variables (<<>> is unset)
    _config,          \* Config._config
    cf_pc,            \* "off" | "new" | "ready" | "raised"
    cf_raised,        \* the exception that left Config.__init__ (<<>> if none)
    cf_got,           \* the last Config.get call and its result
    iface,            \* the LeadDevInterface constructed: [state, mode_arg]
    \* ---- report_progress.py, status_check.py and handoff.py
    t_cmd,            \* the command that runs: "none" while there is none
    t_args,           \* parsed arguments: [milestone, next]
    t_pc,             \* position in main
    t_milestone,      \* `milestone` of report_progress and status_check main
    t_milestone_path, \* milestone_path of handoff main (<<>> is None)
    t_milestone_id,   \* milestone_id of handoff main
    t_exit,           \* return value of main (-1 while it runs)
    t_fault           \* the exception that left main (<<>> if none)

aggVars == <<max_tokens, architecture_file, roadmap_file, milestones_dir,
             ag_pc, ag_args, context, ag_documents, ag_aggregated>>

apiEnv == <<api_key_env, genai_installed, log_writable, cfg_retry, mode>>
apiVars == <<apiEnv, gemini_provider, api_pc, api_op, attempt, last_error,
             events, raised, response, log, ops_done, stdin>>

fetchVars == <<ms_files, hist_files, today, args, f_pc, cur, prompts, steps,
               draft, next_path, exit_code, archive_results>>

cfgVars == <<yaml_available, cfg_files, environ, _config, cf_pc, cf_raised, cf_got, iface>>

toolVars == <<t_cmd, t_args, t_pc, t_milestone, t_milestone_path, t_milestone_id, t_exit, t_fault>>

vars == <<aggVars, apiVars, fetchVars, cfgVars, toolVars>>

-----------------------------------------------------------------------------
(* Python string and list helpers                                          *)

Max(a, b) == IF a >= b THEN a ELSE b
Min(a, b) == IF a <= b THEN a ELSE b

\* s[:n] with Python's slice semantics (a negative stop counts from the end)
PySliceTo(s, n) ==
    LET stop == IF n >= 0 THEN Min(n, Len(s)) ELSE Max(Len(s) + n, 0)
    IN  SubSeq(s, 1, stop)

\* sep.join(parts)
RECURSIVE Join(_, _)
Join(parts, sep) ==
    IF Len(parts) = 0 THEN ""
    ELSE IF Len(parts) = 1 THEN parts[1]
    ELSE parts[1] \o sep \o Join(Tail(parts), sep)

\* t in s (substring test)
Contains(s, t) ==
    \E i \in 1..(Len(s) - Len(t) + 1) : SubSeq(s, i, i + Len(t) - 1) = t

\* s.startswith(t)
StartsWith(s, t) == Len(t) <= Len(s) /\ SubSeq(s, 1, Len(t)) = t

LowerChar(c) ==
    CASE c = "M" -> "m"
      [] c = "D" -> "d"
      [] c = "A" -> "a"
      [] c = "N" -> "n"
      [] c = "Y" -> "y"
      [] c = "E" -> "e"
      [] c = "S" -> "s"
      [] OTHER   -> c

\* s.lower() over the alphabet of the modelled file names
RECURSIVE Lower(_)
Lower(s) ==
    IF Len(s) = 0 THEN ""
    ELSE LowerChar(SubSeq(s, 1, 1)) \o Lower(SubSeq(s, 2, Len(s)))

\* s.replace(a, b) for single characters a, b
RECURSIVE ReplaceChar(_, _, _)
ReplaceChar(s, a, b) ==
    IF Len(s) = 0 THEN ""
    ELSE (IF SubSeq(s, 1, 1) = a THEN b ELSE SubSeq(s, 1, 1))
         \o ReplaceChar(SubSeq(s, 2, Len(s)), a, b)

\* s.lstrip(c) for a single character c
RECURSIVE LStripChar(_, _)
LStripChar(s, c) ==
    IF Len(s) > 0 /\ SubSeq(s, 1, 1) = c
    THEN LStripChar(SubSeq(s, 2, Len(s)), c)
    ELSE s

-----------------------------------------------------------------------------
(* ContextAggregator                                                       *)

CHARS_PER_TOKEN == 4

QueryType == {"architectural", "implementation", "progress", "status", "general"}

\* the slice offset and the two markers of _apply_size_limits
TRUNCATION_RESERVE == 50
TruncationMarker == "\n\n[... truncated for size limit ...]"
OmittedMarker == "[Documents omitted due to size limit]"

\* Largest token budget the model draws (max_chars = 4 * max_tokens)
MaxTokens == 30

\* Texts of the modelled documents
ArchText == "# Architecture\n## Core Principles\nBridge layer keeps Lead DEV in sync."
RoadmapText == "# Roadmap\nM1 docs, M2 bridge, M3 engine"
MsNames == {"M1_Doc.md", "M1 Doc.md", "m1_doc_notes.md"}
MsText(name) ==
    CASE name = "M1_Doc.md"       -> "# M1\n- [x] write docs\n- [ ] review docs with the team"
      [] name = "M1 Doc.md"       -> "# M1 (spaces)\n- [ ] one"
      [] name = "m1_doc_notes.md" -> "notes"
      [] OTHER                    -> ""

NoPath == [exists |-> FALSE, readable |-> FALSE, name |-> "", text |-> ""]
MsFile(name) ==
    [exists |-> name \in milestones_dir.files, readable |-> TRUE,
     name |-> name, text |-> MsText(name)]

_format_phase_info(phase, milestone) ==
    LET parts == (IF milestone # "" THEN <<"Milestone: " \o milestone>> ELSE <<>>)
                 \o (IF phase # "" THEN <<"Phase: " \o phase>> ELSE <<>>)
    IN  IF Len(parts) > 0 THEN Join(parts, "\n") ELSE "Phase: Unknown"

\* The values _find_milestone_spec can return: the first file of the
\* directory listing whose name contains the milestone (the listing order is
\* the file system's, so any matching file can be first); otherwise the first
\* existing name pattern; otherwise None (NoPath).
_find_milestone_spec(milestone) ==
    LET patterns == << milestone \o ".md",
                       ReplaceChar(milestone, "_", " ") \o ".md",
                       IF StartsWith(milestone, "M")
                       THEN "M" \o LStripChar(milestone, "M") \o ".md"
                       ELSE "M" \o milestone \o ".md" >>
        globbed  == {f \in milestones_dir.files :
                        Contains(Lower(f), Lower(milestone))}
        hits     == {i \in 1..Len(patterns) : patterns[i] \in milestones_dir.files}
    IN  IF ~milestones_dir.exists THEN {NoPath}
        ELSE IF globbed # {} THEN {MsFile(f) : f \in globbed}
        ELSE IF hits # {}
             THEN {MsFile(patterns[CHOOSE i \in hits : \A j \in hits : i <= j])}
        ELSE {NoPath}

\* Mutant of _select_documents: the roadmap is appended before the
\* architecture document
_select_documents_RoadmapFirst(query_type, milestone, milestone_file) ==
    (IF query_type = "architectural" /\ roadmap_file.exists
     THEN <<roadmap_file>> ELSE <<>>)
    \o (IF query_type \in {"architectural", "implementation", "general"}
           /\ architecture_file.exists
        THEN <<architecture_file>> ELSE <<>>)
    \o (IF milestone # "" /\ milestone_file.exists
        THEN <<milestone_file>> ELSE <<>>)

\* _select_documents, given the file _find_milestone_spec returned
_select_documents(query_type, milestone, milestone_file) ==
    (IF query_type \in {"architectural", "implementation", "general"}
        /\ architecture_file.exists
     THEN <<architecture_file>> ELSE <<>>)
    \o (IF query_type = "architectural" /\ roadmap_file.exists
        THEN <<roadmap_file>> ELSE <<>>)
    \o (IF milestone # "" /\ milestone_file.exists
        THEN <<milestone_file>> ELSE <<>>)

RECURSIVE RenderDocuments(_)
RenderDocuments(documents) ==
    IF Len(documents) = 0 THEN <<>>
    ELSE (IF documents[1].readable
          THEN << "=== " \o documents[1].name \o " ===" \o "\n" \o documents[1].text >>
          ELSE <<>>)
         \o RenderDocuments(Tail(documents))

_aggregate_documents(documents) == Join(RenderDocuments(documents), "\n\n")

\* What `git status --short` can make _get_git_status return
GitStatusTexts ==
    { "Git Status: Clean (no uncommitted changes)",
      "Git Status:\n M tools/lib/context.py\n?? notes.txt",
      "Git Status: Unable to determine (timeout)" }

\* sum(len(v) for v in context.values())
RECURSIVE SumLen(_, _)
SumLen(ctx, keys) ==
    IF keys = {} THEN 0
    ELSE LET k == CHOOSE x \in keys : TRUE
         IN  Len(ctx[k]) + SumLen(ctx, keys \ {k})

TotalChars(ctx) == SumLen(ctx, DOMAIN ctx)

\* context.get(key, "")
CtxGet(ctx, key) == IF key \in DOMAIN ctx THEN ctx[key] ELSE ""

_apply_size_limits(ctx) ==
    LET max_chars == max_tokens * CHARS_PER_TOKEN
        total_chars == TotalChars(ctx)
        query_phase_chars == Len(CtxGet(ctx, "query")) + Len(CtxGet(ctx, "phase"))
        git_chars == Len(CtxGet(ctx, "git_status"))
        available_for_docs == max_chars - query_phase_chars - git_chars
        docs == ctx["documents"]
    IN  IF total_chars <= max_chars THEN ctx
        ELSE IF "documents" \notin DOMAIN ctx THEN ctx
        ELSE IF available_for_docs > 0
             THEN IF Len(docs) > available_for_docs
                  THEN [ctx EXCEPT !["documents"] =
                          PySliceTo(docs, available_for_docs - TRUNCATION_RESERVE)
                          \o TruncationMarker]
                  ELSE ctx
             ELSE [ctx EXCEPT !["documents"] = OmittedMarker]

\* ContextAggregator.aggregate
aggregate(query_type, query_content, current_phase, current_milestone, include_git_status, milestone_file, git_status) ==
    LET base == [k \in {"query", "phase", "documents"} |->
                   CASE k = "query" -> query_content
                     [] k = "phase" -> _format_phase_info(current_phase, current_milestone)
                     [] OTHER -> _aggregate_documents(
                                   _select_documents(query_type, current_milestone,
                                                     milestone_file))]
        full == IF include_git_status
                THEN [k \in DOMAIN base \cup {"git_status"} |->
                        IF k = "git_status" THEN git_status ELSE base[k]]
                ELSE base
    IN  _apply_size_limits(full)

NoArgs == [query_type |-> "general", query |-> "", phase |-> "",
           milestone |-> "", include_git_status |-> FALSE]
EmptyContext == [k \in {"query"} |-> ""]

QueryTexts == {"Which auth?", "Should the bridge layer cache the aggregated context between calls?"}
PhaseTexts == {"", "2"}
MilestoneTexts == {"", "M1_Doc"}

Aggregate ==
    /\ ag_pc = "ready"
    /\ \E qt \in QueryType, q \in QueryTexts, ph \in PhaseTexts,
          ms \in MilestoneTexts, git \in BOOLEAN, gs \in GitStatusTexts :
          \E mf \in (IF ms # "" THEN _find_milestone_spec(ms) ELSE {NoPath}) :
             /\ git \/ gs = "Git Status: Clean (no uncommitted changes)"
             /\ ag_args' = [query_type |-> qt, query |-> q, phase |-> ph,
                            milestone |-> ms, include_git_status |-> git]
             /\ context' = aggregate(qt, q, ph, ms, git, mf, gs)
             /\ ag_documents' = _select_documents(qt, ms, mf)
             /\ ag_aggregated' = _aggregate_documents(_select_documents(qt, ms, mf))
    /\ ag_pc' = "returned"
    /\ UNCHANGED <<max_tokens, architecture_file, roadmap_file, milestones_dir>>
    /\ UNCHANGED <<apiVars, fetchVars, cfgVars, toolVars>>

-----------------------------------------------------------------------------
(* GeminiProvider and the API mode of LeadDevInterface                     *)

\* Largest retry_count a GeminiConfig of the model carries (the default is 3)
MaxRetryCount == 3
\* Largest retry_delay in seconds (the default is 2.0)
MaxRetryDelay == 2
\* Interface operations made on one LeadDevInterface instance
MaxOps == 2

\* Optional values: None is <<>>, a present value x is <<x>>
None == <<>>
Some(x) == <<x>>

\* str.strip()
IsSpace(c) == c \in {" ", "\n", "\t"}

RECURSIVE LStrip(_)
LStrip(s) ==
    IF Len(s) > 0 /\ IsSpace(SubSeq(s, 1, 1))
    THEN LStrip(SubSeq(s, 2, Len(s)))
    ELSE s

RECURSIVE RStrip(_)
RStrip(s) ==
    IF Len(s) > 0 /\ IsSpace(SubSeq(s, Len(s), Len(s)))
    THEN RStrip(SubSeq(s, 1, Len(s) - 1))
    ELSE s

Strip(s) == RStrip(LStrip(s))

\* s.split("\n")
RECURSIVE SplitLines(_)
SplitLines(s) ==
    IF \E i \in 1..Len(s) : SubSeq(s, i, i) = "\n"
    THEN LET i == CHOOSE k \in 1..Len(s) :
                    /\ SubSeq(s, k, k) = "\n"
                    /\ \A j \in 1..(k - 1) : SubSeq(s, j, j) # "\n"
         IN  <<SubSeq(s, 1, i - 1)>> \o SplitLines(SubSeq(s, i + 1, Len(s)))
    ELSE <<s>>

\* s.endswith(t)
EndsWith(s, t) == Len(t) <= Len(s) /\ SubSeq(s, Len(s) - Len(t) + 1, Len(s)) = t

\* Exceptions are [cls, msg]; the Gemini* classes derive from GeminiProviderError
Exc(cls, msg) == [cls |-> cls, msg |-> msg]
IsGeminiProviderError(e) ==
    e.cls \in {"GeminiProviderError", "GeminiAPIKeyError",
               "GeminiConnectionError", "GeminiResponseError"}

\* Mutant of ApiKeyMissing: the placeholder value passes for a key
ApiKeyMissing_PlaceholderAccepted(key) ==
    ~key.set \/ key.value = ""

\* the api_key test of _load_config_from_env
ApiKeyMissing(key) ==
    ~key.set \/ key.value = "" \/ key.value = "your_api_key_here"

NoProvider ==
    [created |-> FALSE, api_key |-> "", retry_count |-> 0, retry_delay |-> 0,
     client |-> FALSE]

\* GeminiProvider.__init__ with config=None: the provider, or the exception raised
_load_config_from_env ==
    IF ApiKeyMissing(api_key_env)
    THEN [exc |-> Some(Exc("GeminiAPIKeyError",
                  "GEMINI_API_KEY not configured. Copy .env.example to .env and set your API key.")),
          provider |-> NoProvider]
    ELSE [exc |-> None,
          provider |-> [created |-> TRUE, api_key |-> api_key_env.value,
                        retry_count |-> cfg_retry.retry_count,
                        retry_delay |-> cfg_retry.retry_delay,
                        client |-> FALSE]]

\* LeadDevInterface._get_gemini_provider: created once, then cached
_get_gemini_provider ==
    IF gemini_provider.created
    THEN [exc |-> None, provider |-> gemini_provider]
    ELSE _load_config_from_env

\* GeminiProvider._ensure_client
_ensure_client(p) ==
    IF p.client THEN [exc |-> None, provider |-> p]
    ELSE IF ~genai_installed
         THEN [exc |-> Some(Exc("GeminiProviderError",
                  "google-genai package not installed. Run: pip install -r tools/requirements.txt")),
               provider |-> p]
         ELSE [exc |-> None, provider |-> [p EXCEPT !.client = TRUE]]

\* LeadDevResponse.__init__
LeadDevResponse(success, content, error_code, error_message, context_used) ==
    [success |-> success, content |-> content, error_code |-> error_code,
     error_message |-> error_message, context_used |-> context_used]

\* the header scan of _stub_query / _interactive_query / _api_query
RECURSIVE HeaderNames(_)
HeaderNames(lines) ==
    IF Len(lines) = 0 THEN <<>>
    ELSE (IF StartsWith(lines[1], "=== ") /\ EndsWith(lines[1], " ===")
          THEN <<SubSeq(lines[1], 5, Len(lines[1]) - 4)>>
          ELSE <<>>)
         \o HeaderNames(Tail(lines))

ExtractContextUsed(ctx) ==
    IF CtxGet(ctx, "documents") # ""
    THEN HeaderNames(SplitLines(ctx["documents"]))
    ELSE <<>>

\* _log_to_file: appends one line; a failing write is swallowed
_log_to_file(lines, message) ==
    IF log_writable THEN Append(lines, message) ELSE lines

\* what one generate_content call can do: raise, or return a response whose
\* .text is empty/None (""), whitespace only, or text
ServiceErrors == {"503 Service Unavailable", "Deadline exceeded"}
ResponseTexts == {"", " \n", "Use JWT tokens.\n"}
ServiceOutcomes ==
    {[raises |-> TRUE, text |-> "", error |-> e] : e \in ServiceErrors}
    \cup {[raises |-> FALSE, text |-> t, error |-> ""] : t \in ResponseTexts}
NoOutcome == [raises |-> FALSE, text |-> "", error |-> ""]

\* Mutant of MoreAttempts: the last attempt is taken for one before the last
MoreAttempts_OffByOne(p, n) == n < p.retry_count

\* `attempt < self._config.retry_count - 1`
MoreAttempts(p, n) == n < p.retry_count - 1

\* Mutant of BackoffSeconds: a constant delay instead of the linear backoff
BackoffSeconds_Constant(p, n) == p.retry_delay

\* `self._config.retry_delay * (attempt + 1)`
BackoffSeconds(p, n) == p.retry_delay * (n + 1)

\* One iteration of the retry loop of GeminiProvider.query on the outcome of
\* its generate_content call: return a text, go on to the backoff sleep, or
\* leave the loop and raise.
query_attempt(p, n, out) ==
    IF ~out.raises /\ out.text # ""
    THEN [kind |-> "return", text |-> Strip(out.text), exc |-> None, last_error |-> None]
    ELSE LET e == IF out.raises
                  THEN Exc("Exception", out.error)
                  ELSE Exc("GeminiResponseError", "Empty response from Gemini API")
         IN  IF MoreAttempts(p, n)
             THEN [kind |-> "retry", text |-> "", exc |-> None, last_error |-> Some(e)]
             ELSE [kind |-> "raise", text |-> "",
                   exc |-> Some(Exc("GeminiConnectionError",
                              "Failed to get response after " \o ToString(p.retry_count)
                              \o " attempts: " \o e.msg)),
                   last_error |-> Some(e)]

AckText(phase, status) ==
    "Acknowledged: Phase " \o ToString(phase) \o " marked as '" \o status \o "'"

\* Mutant of report_progress_attempt: after the last failed attempt the plain
\* acknowledgment is returned, without the "(API unavailable)" mark
report_progress_attempt_Unmarked(p, n, out, phase, status) ==
    IF ~out.raises /\ out.text # ""
    THEN [kind |-> "return", text |-> Strip(out.text), exc |-> None, last_error |-> None]
    ELSE IF ~out.raises
    THEN [kind |-> "return", text |-> AckText(phase, status), exc |-> None, last_error |-> None]
    ELSE IF n < p.retry_count - 1
    THEN [kind |-> "retry", text |-> "", exc |-> None, last_error |-> None]
    ELSE [kind |-> "return", text |-> AckText(phase, status),
          exc |-> None, last_error |-> None]

\* One iteration of the retry loop of GeminiProvider.report_progress
report_progress_attempt(p, n, out, phase, status) ==
    IF ~out.raises /\ out.text # ""
    THEN [kind |-> "return", text |-> Strip(out.text), exc |-> None, last_error |-> None]
    ELSE IF ~out.raises
    THEN [kind |-> "return", text |-> AckText(phase, status), exc |-> None, last_error |-> None]
    ELSE IF MoreAttempts(p, n)
    THEN [kind |-> "retry", text |-> "", exc |-> None, last_error |-> None]
    ELSE [kind |-> "return", text |-> AckText(phase, status) \o " (API unavailable)",
          exc |-> None, last_error |-> None]

\* The single try of GeminiProvider.validate_status
validate_status_attempt(out) ==
    IF ~out.raises /\ out.text # ""
    THEN [kind |-> "return", text |-> Strip(out.text), exc |-> None, last_error |-> None]
    ELSE [kind |-> "return",
          text |-> "Status validation completed - no critical issues detected (API check skipped)",
          exc |-> None, last_error |-> None]

\* except GeminiAPIKeyError, of the three _api_* methods
api_except_key(e) == LeadDevResponse(FALSE, "", 1, Some(e.msg), <<>>)

\* Mutant of _api_query_except: the failure envelope carries no message
_api_query_except_NoMessage(e) == LeadDevResponse(FALSE, "", 1, None, <<>>)

\* except GeminiProviderError of _api_query
_api_query_except(e) ==
    IF e.cls = "GeminiAPIKeyError" THEN api_except_key(e)
    ELSE LeadDevResponse(FALSE, "", 1, Some("Lead DEV API error: " \o e.msg), <<>>)

\* Mutant of _api_report_progress_except: a provider error is a hard failure,
\* as it is for query
_api_report_progress_except_Hard(e, phase, status) ==
    IF e.cls = "GeminiAPIKeyError" THEN api_except_key(e)
    ELSE LeadDevResponse(FALSE, "", 1, Some("Lead DEV API error: " \o e.msg), <<>>)

\* except GeminiProviderError of _api_report_progress
_api_report_progress_except(e, phase, status) ==
    IF e.cls = "GeminiAPIKeyError" THEN api_except_key(e)
    ELSE LeadDevResponse(TRUE, AckText(phase, status) \o " (API unavailable)", 0, None, <<>>)

\* except GeminiProviderError of _api_validate_status
_api_validate_status_except(e) ==
    IF e.cls = "GeminiAPIKeyError" THEN api_except_key(e)
    ELSE LeadDevResponse(TRUE,
            "Status validation completed (API unavailable - skipped remote check)",
            0, None, <<>>)

ApiExcept(op, e) ==
    CASE op.name = "query"           -> _api_query_except(e)
      [] op.name = "report_progress" -> _api_report_progress_except(e, op.phase, op.status)
      [] OTHER                       -> _api_validate_status_except(e)

\* the envelope of a provider call that returned response_text
ApiReturn(op, text) ==
    LeadDevResponse(TRUE, text, 0, None,
                    IF op.name = "query" THEN ExtractContextUsed(op.context) ELSE <<>>)

RequestLine(op) ==
    CASE op.name = "query" -> "API QUERY: " \o op.question
      [] op.name = "report_progress" ->
            "API PROGRESS: Phase " \o ToString(op.phase) \o " (" \o op.status
            \o ") - " \o op.milestone
      [] OTHER -> "API STATUS CHECK: Validation requested"

ReturnLine(op, text) ==
    (CASE op.name = "query" -> "API RESPONSE: "
       [] op.name = "report_progress" -> "API ACK: "
       [] OTHER -> "API VALIDATION: ")
    \o PySliceTo(text, 100) \o "..."

ErrorLine(e) ==
    (IF e.cls = "GeminiAPIKeyError" THEN "API ERROR (key): " ELSE "API ERROR (provider): ")
    \o e.msg

\* The start of an _api_* method: the request line is logged, the provider is
\* fetched (created on first use) and the provider method runs up to its first
\* generate_content call; an exception on the way ends the operation in the
\* method's except clause.
ApiBegin(op) ==
    /\ api_pc \in {"idle", "done"}
    /\ ops_done < MaxOps
    /\ LET got == _get_gemini_provider
           ens == IF got.exc = None THEN _ensure_client(got.provider) ELSE got
       IN  /\ gemini_provider' = ens.provider
           /\ api_op' = op
           /\ attempt' = 0
           /\ last_error' = None
           /\ events' = <<>>
           /\ raised' = ens.exc
           /\ IF ens.exc = None
              THEN /\ api_pc' = "call"
                   /\ response' = None
                   /\ log' = _log_to_file(log, RequestLine(op))
                   /\ UNCHANGED ops_done
              ELSE /\ api_pc' = "done"
                   /\ response' = Some(ApiExcept(op, ens.exc[1]))
                   /\ log' = _log_to_file(_log_to_file(log, RequestLine(op)),
                                          ErrorLine(ens.exc[1]))
                   /\ ops_done' = ops_done + 1
    /\ UNCHANGED <<apiEnv, stdin, aggVars, fetchVars, cfgVars, toolVars>>

ApiContexts ==
    { [k \in {"query", "phase", "documents"} |->
         CASE k = "query" -> "What auth method?"
           [] k = "phase" -> "Phase: 2"
           [] OTHER -> "=== ARCHITECTURE.md ===\n# Architecture\n\n=== M1_Doc.md ===\n# M1"] }

QueryOp(question, ctx) ==
    [name |-> "query", question |-> question, phase |-> 0, status |-> "",
     message |-> "", milestone |-> "", context |-> ctx]
ReportOp(phase, status, message, milestone, ctx) ==
    [name |-> "report_progress", question |-> "", phase |-> phase, status |-> status,
     message |-> message, milestone |-> milestone, context |-> ctx]
ValidateOp(ctx) ==
    [name |-> "validate_status", question |-> "", phase |-> 0, status |-> "",
     message |-> "", milestone |-> "", context |-> ctx]
NoOp ==
    [name |-> "", question |-> "", phase |-> 0, status |-> "",
     message |-> "", milestone |-> "", context |-> EmptyContext]

StatusValues == {"done", "blocked", "review"}
PhaseNumbers == {1, 2}

\* LeadDevInterface.query -> _api_query
_api_query ==
    /\ mode = "api"
    /\ \E ctx \in ApiContexts : ApiBegin(QueryOp("What auth method?", ctx))

\* LeadDevInterface.report_progress -> _api_report_progress
_api_report_progress ==
    /\ mode = "api"
    /\ \E phase \in PhaseNumbers, status \in StatusValues, ctx \in ApiContexts :
          ApiBegin(ReportOp(phase, status, "", "M1_Doc", ctx))

\* LeadDevInterface.validate_status -> _api_validate_status
_api_validate_status ==
    /\ mode = "api"
    /\ \E ctx \in ApiContexts : ApiBegin(ValidateOp(ctx))

\* One generate_content call of the provider method in progress, and what the
\* method and the _api_* method around it do with its outcome.
generate_content ==
    /\ api_pc = "call"
    /\ \E out \in ServiceOutcomes :
          LET step == CASE api_op.name = "query" ->
                              query_attempt(gemini_provider, attempt, out)
                        [] api_op.name = "report_progress" ->
                              report_progress_attempt(gemini_provider, attempt, out,
                                                      api_op.phase, api_op.status)
                        [] OTHER -> validate_status_attempt(out)
          IN  /\ events' = Append(events, [kind |-> "call", out |-> out, seconds |-> 0])
              /\ last_error' = IF step.last_error # None THEN step.last_error ELSE last_error
              /\ raised' = step.exc
              /\ CASE step.kind = "retry" ->
                        /\ api_pc' = "sleep"
                        /\ UNCHANGED <<response, log, ops_done>>
                   [] step.kind = "return" ->
                        /\ api_pc' = "done"
                        /\ response' = Some(ApiReturn(api_op, step.text))
                        /\ log' = _log_to_file(log, ReturnLine(api_op, step.text))
                        /\ ops_done' = ops_done + 1
                   [] OTHER ->
                        /\ api_pc' = "done"
                        /\ response' = Some(ApiExcept(api_op, step.exc[1]))
                        /\ log' = _log_to_file(log, ErrorLine(step.exc[1]))
                        /\ ops_done' = ops_done + 1
    /\ UNCHANGED <<apiEnv, stdin, gemini_provider, api_op, attempt, aggVars, fetchVars, cfgVars, toolVars>>

\* time.sleep(retry_delay * (attempt + 1)), then the next loop iteration
sleep ==
    /\ api_pc = "sleep"
    /\ events' = Append(events, [kind |-> "sleep", out |-> NoOutcome,
                                 seconds |-> BackoffSeconds(gemini_provider, attempt)])
    /\ attempt' = attempt + 1
    /\ api_pc' = "call"
    /\ UNCHANGED <<apiEnv, stdin, gemini_provider, api_op, last_error, raised, response,
                   log, ops_done, aggVars, fetchVars, cfgVars, toolVars>>

-----------------------------------------------------------------------------
(* LeadDevInterface in stub mode and in interactive mode                   *)

\* The operations the stub and interactive modes are called with
ReportMessages == {"", "tests pass"}
InterfaceOps(name) ==
    CASE name = "query" -> {QueryOp("What auth method?", ctx) : ctx \in ApiContexts}
      [] name = "report_progress" ->
            {ReportOp(phase, status, message, "M1_Doc", ctx) :
                phase \in PhaseNumbers, status \in StatusValues,
                message \in ReportMessages, ctx \in ApiContexts}
      [] OTHER -> {ValidateOp(ctx) : ctx \in ApiContexts}

\* What sys.stdin can hold when the interface is constructed: each element is
\* one line given to input(); after the last one input() raises EOFError
InputStreams ==
    { <<>>, <<"">>, <<"", "">>, <<"  ", "", "">>, <<"Use JWT tokens.">>,
      <<" Use JWT tokens. ", "", "">>,
      <<"Use JWT tokens.", "", "Rotate the keys.", "", "", "left unread">>,
      <<"", "Looks fine.", "", "">> }

\* one input() call as an event: the line it returned, or EOFError
InputEvent(line) ==
    [kind |-> "input", out |-> [raises |-> FALSE, text |-> line, error |-> ""],
     seconds |-> 0]
EOFEvent ==
    [kind |-> "input", out |-> [raises |-> TRUE, text |-> "", error |-> "EOFError"],
     seconds |-> 0]

\* Mutant of ReadInput: the first empty line ends the input
RECURSIVE ReadInput_FirstEmptyLine(_, _, _, _)
ReadInput_FirstEmptyLine(stream, lines, empty_line_count, reads) ==
    IF stream = <<>>
    THEN [lines |-> lines, reads |-> Append(reads, EOFEvent), rest |-> <<>>]
    ELSE IF Head(stream) = ""
    THEN [lines |-> lines, reads |-> Append(reads, InputEvent("")), rest |-> Tail(stream)]
    ELSE ReadInput_FirstEmptyLine(Tail(stream), Append(lines, Head(stream)), 0,
                                  Append(reads, InputEvent(Head(stream))))

\* the read loop of _get_user_input: the lines kept and the input() calls made
RECURSIVE ReadInput(_, _, _, _)
ReadInput(stream, lines, empty_line_count, reads) ==
    IF stream = <<>>
    THEN [lines |-> lines, reads |-> Append(reads, EOFEvent), rest |-> <<>>]
    ELSE LET line == Head(stream)
             rd   == Append(reads, InputEvent(line))
         IN  IF line = ""
             THEN IF empty_line_count + 1 >= 2
                  THEN [lines |-> lines, reads |-> rd, rest |-> Tail(stream)]
                  ELSE ReadInput(Tail(stream), Append(lines, line),
                                 empty_line_count + 1, rd)
             ELSE ReadInput(Tail(stream), Append(lines, line), 0, rd)

\* Mutant of _get_user_input: the joined lines are returned without strip()
_get_user_input_Unstripped(stream) ==
    LET r == ReadInput(stream, <<>>, 0, <<>>)
    IN  [text |-> Join(r.lines, "\n"), reads |-> r.reads, rest |-> r.rest]

\* _get_user_input: "\n".join(lines).strip()
_get_user_input(stream) ==
    LET r == ReadInput(stream, <<>>, 0, <<>>)
    IN  [text |-> Strip(Join(r.lines, "\n")), reads |-> r.reads, rest |-> r.rest]

StubQueryContent(question) ==
    "[STUB RESPONSE]\n"
    \o "This is a stub response for testing purposes.\n"
    \o "In production, this query would be sent to Lead DEV (Gemini):\n\n"
    \o "Question: " \o question \o "\n\n"
    \o "The Lead DEV would process this with the provided context and return "
    \o "architectural guidance or clarification."

StubProgressContent(phase, status, milestone) ==
    "[STUB ACKNOWLEDGMENT]\n"
    \o "Progress report received (stub mode).\n"
    \o "In production, Lead DEV would update global state:\n"
    \o "  - Phase " \o ToString(phase) \o " marked as '" \o status \o "'\n"
    \o "  - Milestone: " \o milestone \o "\n"
    \o (CASE status = "blocked" -> "  - Blocker flagged for CTO/Lead attention\n"
          [] status = "review" -> "  - Stakeholders notified for review\n"
          [] OTHER -> "")

StubValidationContent ==
    "[STUB VALIDATION]\n"
    \o "Status validation processed (stub mode).\n"
    \o "In production, Lead DEV would validate current state against the plan."

\* An operation of the stub or interactive mode, which runs to its return in
\* one step: the input() calls it made, what they left of the input stream,
\* the log after it, its envelope
Returns(op, reads, rest, lines, resp) ==
    /\ api_pc \in {"idle", "done"}
    /\ ops_done < MaxOps
    /\ api_op' = op
    /\ events' = reads
    /\ stdin' = rest
    /\ log' = lines
    /\ response' = Some(resp)
    /\ api_pc' = "done"
    /\ ops_done' = ops_done + 1
    /\ attempt' = 0
    /\ last_error' = None
    /\ raised' = None
    /\ UNCHANGED <<apiEnv, gemini_provider, aggVars, fetchVars, cfgVars, toolVars>>

\* _stub_query(question, context)
StubQuery(op) ==
    LET response_content == StubQueryContent(op.question)
    IN  Returns(op, <<>>, stdin,
                _log_to_file(_log_to_file(log, "QUERY: " \o op.question),
                             "RESPONSE: " \o PySliceTo(response_content, 100) \o "..."),
                LeadDevResponse(TRUE, response_content, 0, None,
                                ExtractContextUsed(op.context)))

\* LeadDevInterface.query -> _stub_query
_stub_query ==
    /\ mode = "stub"
    /\ \E op \in InterfaceOps("query") : StubQuery(op)

\* LeadDevInterface.report_progress -> _stub_report_progress
_stub_report_progress ==
    /\ mode = "stub"
    /\ \E op \in InterfaceOps("report_progress") :
          Returns(op, <<>>, stdin,
                  _log_to_file(log, "PROGRESS: Phase " \o ToString(op.phase) \o " ("
                                    \o op.status \o ") - " \o op.milestone \o " - "
                                    \o op.message),
                  LeadDevResponse(TRUE,
                                  StubProgressContent(op.phase, op.status, op.milestone),
                                  0, None, <<>>))

\* LeadDevInterface.validate_status -> _stub_validate_status
_stub_validate_status ==
    /\ mode = "stub"
    /\ \E op \in InterfaceOps("validate_status") :
          Returns(op, <<>>, stdin,
                  _log_to_file(log, "STATUS CHECK: Validation requested"),
                  LeadDevResponse(TRUE, StubValidationContent, 0, None, <<>>))

\* _interactive_query(question, context)
InteractiveQuery(op) ==
    LET user_response == _get_user_input(stdin)
        requested == _log_to_file(log, "INTERACTIVE QUERY: " \o op.question)
    IN  IF user_response.text = ""
        THEN Returns(op, user_response.reads, user_response.rest, requested,
                     LeadDevResponse(FALSE, "", 2, Some("No response provided"), <<>>))
        ELSE Returns(op, user_response.reads, user_response.rest,
                     _log_to_file(requested,
                                  "INTERACTIVE RESPONSE: "
                                  \o PySliceTo(user_response.text, 100) \o "..."),
                     LeadDevResponse(TRUE, user_response.text, 0, None,
                                     ExtractContextUsed(op.context)))

\* LeadDevInterface.query -> _interactive_query
_interactive_query ==
    /\ mode = "interactive"
    /\ \E op \in InterfaceOps("query") : InteractiveQuery(op)

\* LeadDevInterface.report_progress -> _interactive_report_progress
_interactive_report_progress ==
    /\ mode = "interactive"
    /\ \E op \in InterfaceOps("report_progress") :
          LET typed == _get_user_input(stdin)
              user_response ==
                  IF typed.text = ""
                  THEN "Acknowledged: Phase " \o ToString(op.phase) \o " marked as '"
                       \o op.status \o "'"
                  ELSE typed.text
          IN  Returns(op, typed.reads, typed.rest,
                      _log_to_file(
                          _log_to_file(log, "INTERACTIVE PROGRESS: Phase "
                                            \o ToString(op.phase) \o " (" \o op.status
                                            \o ") - " \o op.milestone),
                          "INTERACTIVE ACK: " \o PySliceTo(user_response, 100) \o "..."),
                      LeadDevResponse(TRUE, user_response, 0, None, <<>>))

\* LeadDevInterface.validate_status -> _interactive_validate_status
_interactive_validate_status ==
    /\ mode = "interactive"
    /\ \E op \in InterfaceOps("validate_status") :
          LET typed == _get_user_input(stdin)
              user_response == IF typed.text = ""
                               THEN "Status validated - no issues noted"
                               ELSE typed.text
          IN  Returns(op, typed.reads, typed.rest,
                      _log_to_file(
                          _log_to_file(log, "INTERACTIVE STATUS CHECK: Validation requested"),
                          "INTERACTIVE VALIDATION: " \o PySliceTo(user_response, 100)
                          \o "..."),
                      LeadDevResponse(TRUE, user_response, 0, None, <<>>))

-----------------------------------------------------------------------------
(* ask_lead.py: the aggregated context is handed to the interface          *)

\* main of ask_lead: `response = interface.query(question, context)` with the
\* context aggregate returned for the question
ask_lead_query ==
    /\ ag_pc = "returned"
    /\ LET op == QueryOp(ag_args.query, context)
       IN  \/ mode = "stub" /\ StubQuery(op)
           \/ mode = "interactive" /\ InteractiveQuery(op)
           \/ mode = "api" /\ ApiBegin(op)

-----------------------------------------------------------------------------
(* fetch_next.py: milestone files, completion check, archive               *)

\* the i-th character of s, "" beyond its end
Ch(s, i) == IF i >= 1 /\ i <= Len(s) THEN SubSeq(s, i, i) ELSE ""

\* s.find(t): the 1-based index of the first occurrence, 0 when there is none
Find(s, t) ==
    LET hits == {i \in 1..(Len(s) - Len(t) + 1) : SubSeq(s, i, i + Len(t) - 1) = t}
    IN  IF hits = {} THEN 0 ELSE CHOOSE i \in hits : \A j \in hits : i <= j

\* the first position >= i of s that holds no whitespace (Len(s)+1 if none)
RECURSIVE SkipWs(_, _)
SkipWs(s, i) ==
    IF i <= Len(s) /\ IsSpace(Ch(s, i)) THEN SkipWs(s, i + 1) ELSE i

\* the position of the first "\n" at or after i (Len(s)+1 if none)
RECURSIVE EndOfLine(_, _)
EndOfLine(s, i) ==
    IF i <= Len(s) /\ Ch(s, i) # "\n" THEN EndOfLine(s, i + 1) ELSE i

IsDigit(c) == c \in {"0", "1", "2", "3", "4", "5", "6", "7", "8", "9"}
DigitVal(c) ==
    CASE c = "0" -> 0 [] c = "1" -> 1 [] c = "2" -> 2 [] c = "3" -> 3 [] c = "4" -> 4
      [] c = "5" -> 5 [] c = "6" -> 6 [] c = "7" -> 7 [] c = "8" -> 8 [] OTHER -> 9

\* the end of the run of digits that starts at i (i - 1 when s[i] is no digit)
RECURSIVE DigitsEnd(_, _)
DigitsEnd(s, i) ==
    IF IsDigit(Ch(s, i)) THEN DigitsEnd(s, i + 1) ELSE i - 1

\* int(s) for a string of digits
RECURSIVE ParseInt(_)
ParseInt(s) ==
    IF Len(s) = 0 THEN 0
    ELSE 10 * ParseInt(SubSeq(s, 1, Len(s) - 1)) + DigitVal(Ch(s, Len(s)))

\* re.match(r"M(\d+)_(.+)\.md$", name): whether it matches, and int(group(1))
MilestonePattern(name) ==
    LET d == DigitsEnd(name, 2)
    IN  IF /\ Ch(name, 1) = "M"
           /\ d >= 2
           /\ Ch(name, d + 1) = "_"
           /\ EndsWith(name, ".md")
           /\ Len(name) >= d + 1 + 1 + 3
        THEN [match |-> TRUE, num |-> ParseInt(SubSeq(name, 2, d))]
        ELSE [match |-> FALSE, num |-> 0]

\* glob(prefix + "*.md") over a set of file names
Glob(names, prefix) ==
    {f \in names : /\ StartsWith(f, prefix)
                   /\ EndsWith(f, ".md")
                   /\ Len(f) >= Len(prefix) + 3}

\* glob("M*_*.md")
GlobMilestones(names) ==
    {f \in names : /\ StartsWith(f, "M")
                   /\ EndsWith(f, ".md")
                   /\ \E i \in 2..(Len(f) - 3) : Ch(f, i) = "_"}

\* find_current_milestone: (id, path, number) of the highest number. The sort
\* is stable, so among equal numbers the listing order decides: any of them
\* can be the one returned.
find_current_milestone(names) ==
    LET parsed == {f \in GlobMilestones(names) : MilestonePattern(f).match}
        best   == {f \in parsed :
                     \A g \in parsed : MilestonePattern(g).num <= MilestonePattern(f).num}
    IN  {[found |-> TRUE, id |-> "M" \o ToString(MilestonePattern(f).num),
          path |-> f, num |-> MilestonePattern(f).num] : f \in best}
        \cup (IF parsed = {} THEN {[found |-> FALSE, id |-> "", path |-> "", num |-> 0]}
              ELSE {})

\* One match of r"^[\s]*-\s*\[\s*\]\s*(.+)$" (MULTILINE) that starts at the
\* line start p: whether it matches, the text of the group and the position
\* after the match.
UncheckedMatch(s, p) ==
    LET a     == SkipWs(s, p)
        b     == SkipWs(s, a + 1)
        c     == SkipWs(s, b + 1)
        after == c + 1
        w     == SkipWs(s, after)
        \* \s* gives characters back until (.+) has a character to start on
        starts == {g \in after..w : g <= Len(s) /\ Ch(s, g) # "\n"}
        g     == CHOOSE x \in starts : \A y \in starts : y <= x
    IN  IF /\ Ch(s, a) = "-"
           /\ Ch(s, b) = "["
           /\ Ch(s, c) = "]"
           /\ starts # {}
        THEN [match |-> TRUE, item |-> SubSeq(s, g, EndOfLine(s, g) - 1),
              next |-> EndOfLine(s, g)]
        ELSE [match |-> FALSE, item |-> "", next |-> p]

\* unchecked_pattern.findall(content), scanning from position p
RECURSIVE FindAllUnchecked(_, _)
FindAllUnchecked(s, p) ==
    IF p > Len(s) THEN <<>>
    ELSE IF p = 1 \/ Ch(s, p - 1) = "\n"
         THEN LET m == UncheckedMatch(s, p)
              IN  IF m.match
                  THEN <<m.item>> \o FindAllUnchecked(s, m.next)
                  ELSE FindAllUnchecked(s, p + 1)
         ELSE FindAllUnchecked(s, EndOfLine(s, p) + 1)

RECURSIVE StripAll(_)
StripAll(items) ==
    IF Len(items) = 0 THEN <<>> ELSE <<Strip(items[1])>> \o StripAll(Tail(items))

\* check_milestone_complete on the content of the file
check_milestone_complete(content) ==
    LET incomplete == StripAll(FindAllUnchecked(content, 1))
    IN  [is_complete |-> Len(incomplete) = 0, incomplete |-> incomplete]

\* Path.stem of a name with one suffix
Stem(name) == IF EndsWith(name, ".md") THEN SubSeq(name, 1, Len(name) - 3) ELSE name

\* Mutant of FreeArchivePath: the name is used whether it exists or not
FreeArchivePath_NoLoop(stem, timestamp, archive_name, counter, existing) == archive_name

\* `while archive_path.exists()` of archive_milestone: the first free name,
\* counting from `counter`
RECURSIVE FreeArchivePath(_, _, _, _, _)
FreeArchivePath(stem, timestamp, archive_name, counter, existing) ==
    IF archive_name \in existing
    THEN FreeArchivePath(stem, timestamp,
                         stem \o "_" \o timestamp \o "_" \o ToString(counter) \o ".md",
                         counter + 1, existing)
    ELSE archive_name

\* the archive_path archive_milestone copies to
ArchivePath(name, timestamp, existing) ==
    FreeArchivePath(Stem(name), timestamp,
                    Stem(name) \o "_" \o timestamp \o ".md", 1, existing)

\* shutil.copy2(src, dst) on a directory given as a function name -> content
CopyInto(dir, dst, content) ==
    [f \in DOMAIN dir \cup {dst} |-> IF f = dst THEN content ELSE dir[f]]

\* archive_milestone(milestone_path, history_path): its return value, the
\* history directory after it and the path it copied to. `fault` is an OSError
\* from mkdir or copy2 (caught: the function prints and returns False).
archive_milestone(milestone_path, fault) ==
    IF fault \/ milestone_path \notin DOMAIN ms_files
    THEN [ok |-> FALSE, history |-> hist_files, archive_path |-> ""]
    ELSE LET archive_path == ArchivePath(milestone_path, today, DOMAIN hist_files)
         IN  [ok |-> TRUE,
              history |-> CopyInto(hist_files, archive_path, ms_files[milestone_path]),
              archive_path |-> archive_path]

\* Calls of archive_milestone on one source in a row
MaxArchiveCalls == 3

Dates == <<"20261105", "20261106">>

\* Milestone documents of the model
DoneDoc ==
    "# M1\n## Objective\nSet up docs\n## Phases\n- [x] write docs\n## Success Criteria\n- [x] docs exist"
TodoDoc ==
    "# M1\n## Objective\nSet up docs\n## Phases\n- [x] write docs\n- [ ] review docs\n## Success Criteria\n- [ ] docs exist"

\* A call archive_milestone(cur.path, history_path)
archive_call ==
    /\ f_pc = "archiving"
    /\ Len(archive_results) < MaxArchiveCalls
    /\ \E fault \in BOOLEAN :
          LET r == archive_milestone(cur.path, fault)
          IN  /\ hist_files' = r.history
              /\ archive_results' = Append(archive_results,
                                           [ok |-> r.ok, archive_path |-> r.archive_path])
    /\ UNCHANGED <<ms_files, today, args, f_pc, cur, prompts, steps, draft,
                   next_path, exit_code, aggVars, apiVars, cfgVars, toolVars>>

\* Outside this system: an author ticks the open items of the milestone
mark_items_done ==
    /\ f_pc = "archiving"
    /\ ms_files[cur.path] = TodoDoc
    /\ ms_files' = [ms_files EXCEPT ![cur.path] = DoneDoc]
    /\ UNCHANGED <<hist_files, today, args, f_pc, cur, prompts, steps, draft,
                   next_path, exit_code, archive_results, aggVars, apiVars, cfgVars, toolVars>>

\* The UTC date changes
midnight ==
    /\ f_pc = "archiving"
    /\ today = Dates[1]
    /\ today' = Dates[2]
    /\ UNCHANGED <<ms_files, hist_files, args, f_pc, cur, prompts, steps, draft,
                   next_path, exit_code, archive_results, aggVars, apiVars, cfgVars, toolVars>>

-----------------------------------------------------------------------------
(* fetch_next.py: main                                                     *)

UpperChar(c) == IF c = "m" THEN "M" ELSE c

\* str.upper()
RECURSIVE Upper(_)
Upper(s) ==
    IF Len(s) = 0 THEN ""
    ELSE UpperChar(SubSeq(s, 1, 1)) \o Upper(SubSeq(s, 2, Len(s)))

\* s[a:b] of Python for 0 <= a, 0 <= b, given as 1-based positions first..last
Slice(s, first, last) ==
    IF first > Len(s) \/ last < first THEN "" ELSE SubSeq(s, first, Min(last, Len(s)))

\* re.search(r"M(\d+)", milestone_id): whether it matches, and int(group(1))
SearchNumber(milestone_id) ==
    LET hits == {i \in 1..Len(milestone_id) :
                   Ch(milestone_id, i) = "M" /\ IsDigit(Ch(milestone_id, i + 1))}
        i    == CHOOSE x \in hits : \A y \in hits : x <= y
    IN  IF hits = {} THEN [match |-> FALSE, num |-> 0]
        ELSE [match |-> TRUE,
              num |-> ParseInt(SubSeq(milestone_id, i + 1, DigitsEnd(milestone_id, i + 1)))]

\* group(1).strip() of re.search(r"##\s*<heading>\s*\n(.*?)(?=\n##|\Z)", content,
\* re.DOTALL), "" when there is no match
Section(content, heading) ==
    LET hits == {i \in 1..Len(content) :
                   LET j == SkipWs(content, i + 2)
                       k == SkipWs(content, j + Len(heading))
                   IN  /\ Slice(content, i, i + 1) = "##"
                       /\ Slice(content, j, j + Len(heading) - 1) = heading
                       /\ \E n \in (j + Len(heading))..(k - 1) : Ch(content, n) = "\n"}
        i    == CHOOSE x \in hits : \A y \in hits : x <= y
        g    == SkipWs(content, SkipWs(content, i + 2) + Len(heading))
        ends == {e \in g..Len(content) : Slice(content, e, e + 2) = "\n##"}
        e    == IF ends = {} THEN Len(content) + 1
                ELSE CHOOSE x \in ends : \A y \in ends : x <= y
    IN  IF hits = {} THEN "" ELSE Strip(Slice(content, g, e - 1))

extract_milestone_context(content) ==
    "Objective: " \o Section(content, "Objective")
        \o "\n\nSuccess Criteria:\n" \o Section(content, "Success Criteria")

SUMMARY_CHARS == 1000

get_architecture_summary ==
    IF ~architecture_file.exists THEN "(No architecture document found)"
    ELSE IF ~architecture_file.readable THEN "(Could not read architecture document)"
    ELSE PySliceTo(architecture_file.text, SUMMARY_CHARS)
            \o (IF Len(architecture_file.text) > SUMMARY_CHARS THEN "..." ELSE "")

MILESTONE_START == "### MILESTONE_START ###"
MILESTONE_END == "### MILESTONE_END ###"
FormatPlaceholder == "(full milestone specification in markdown)"

construct_next_milestone_prompt(milestone_id, milestone_context, architecture_summary) ==
    "MILESTONE PROGRESSION REQUEST\n\nMilestone " \o milestone_id
        \o " has been completed successfully.\n\n## Completed Milestone Summary\n"
        \o milestone_context
        \o "\n\n## Project Architecture Context\n" \o architecture_summary
        \o "\n\n## Request\n\nBased on the completed milestone and project architecture, please define the next logical milestone.\n\n"
        \o "Generate a milestone specification with:\n\n"
        \o "1. **Objective** - Clear goal for this milestone\n"
        \o "2. **Phases** - 2-4 implementation phases with checklist items\n"
        \o "3. **Success Criteria** - Measurable completion criteria\n"
        \o "4. **Deliverables** - Expected outputs\n\n"
        \o "## Response Format\n\n"
        \o MILESTONE_START \o "\n" \o FormatPlaceholder \o "\n" \o MILESTONE_END \o "\n"

\* parse_milestone_response: Some(content) or None
parse_milestone_response(response_content) ==
    LET ms_start == Find(response_content, MILESTONE_START)
        ms_end   == Find(response_content, MILESTONE_END)
        content  == Strip(Slice(response_content, ms_start + Len(MILESTONE_START),
                                ms_end - 1))
    IN  IF ms_start # 0 /\ ms_end # 0 /\ content # "" /\ content # FormatPlaceholder
        THEN Some(content)
        ELSE None

CONTEXT_CHARS == 500

\* strftime("%Y-%m-%d") of the date kept as YYYYMMDD
IsoDate(d) == SubSeq(d, 1, 4) \o "-" \o SubSeq(d, 5, 6) \o "-" \o SubSeq(d, 7, 8)

generate_stub_next_milestone(current_num, milestone_context) ==
    LET n == ToString(current_num)
    IN  [content |->
            "# Milestone " \o ToString(current_num + 1) \o ": Continuation\n\n"
            \o "> Generated by HMAS Inception Engine on " \o IsoDate(today) \o "\n\n"
            \o "## Objective\n\n"
            \o "Continue development based on the progress from Milestone " \o n \o ".\n\n"
            \o "Previous milestone context:\n"
            \o PySliceTo(milestone_context, CONTEXT_CHARS)
            \o (IF Len(milestone_context) > CONTEXT_CHARS THEN "..." ELSE "")
            \o "\n\n## Phases\n\n### Phase 1: Review & Planning\n"
            \o "- [ ] Review Milestone " \o n \o " deliverables\n"
            \o "- [ ] Identify areas for improvement\n"
            \o "- [ ] Plan next implementation steps\n\n"
            \o "### Phase 2: Implementation\n"
            \o "- [ ] Implement core features for this milestone\n"
            \o "- [ ] Integrate with existing codebase\n"
            \o "- [ ] Handle edge cases and error scenarios\n\n"
            \o "### Phase 3: Testing & Documentation\n"
            \o "- [ ] Write tests for new functionality\n"
            \o "- [ ] Update documentation\n"
            \o "- [ ] Perform integration testing\n\n"
            \o "## Success Criteria\n\n"
            \o "- [ ] All Phase tasks completed\n"
            \o "- [ ] Tests passing\n"
            \o "- [ ] Documentation updated\n"
            \o "- [ ] Ready for next milestone progression\n\n"
            \o "## Deliverables\n\n"
            \o "1. Implementation of milestone objectives\n"
            \o "2. Updated test suite\n"
            \o "3. Documentation updates\n",
         title |-> "Continuation"]

\* What the operator types at a confirmation prompt; eof is EOFError or
\* KeyboardInterrupt from input()
Answers ==
    {[eof |-> FALSE, text |-> t] : t \in {"y", " YES ", "n", ""}}
        \cup {[eof |-> TRUE, text |-> ""]}

confirm_action(answer) ==
    IF answer.eof THEN FALSE ELSE Lower(Strip(answer.text)) \in {"y", "yes"}

\* response_content of _stub_query
StubResponse(question) ==
    "[STUB RESPONSE]\nThis is a stub response for testing purposes.\n"
        \o "In production, this query would be sent to Lead DEV (Gemini):\n\n"
        \o "Question: " \o question \o "\n\n"
        \o "The Lead DEV would process this with the provided context and return "
        \o "architectural guidance or clarification."

\* What interface.query(prompt, ...) can give main: an exception, a failure
\* envelope, the stub answer, or an answer of the operator or the service
LeadAnswers ==
    {MILESTONE_START \o "\n# Milestone 2: Auth\n- [ ] add login\n" \o MILESTONE_END,
     "The next milestone should cover authentication.",
     MILESTONE_END \o "\n# late\n" \o MILESTONE_START}

LeadOutcomes(prompt) ==
    {[raises |-> TRUE, response |-> LeadDevResponse(FALSE, "", 1, None, <<>>)],
     [raises |-> FALSE,
      response |-> LeadDevResponse(FALSE, "", 2, Some("No response provided"), <<>>)],
     [raises |-> FALSE,
      response |-> LeadDevResponse(TRUE, StubResponse(prompt), 0, None, <<>>)]}
        \cup {[raises |-> FALSE, response |-> LeadDevResponse(TRUE, c, 0, None, <<>>)] :
                c \in LeadAnswers}

\* Mutant of ShouldArchive: --dry-run is not looked at
ShouldArchive_IgnoresDryRun(a) == ~a.no_archive

\* `if not args.no_archive and not args.dry_run`
ShouldArchive_Inverted(a) == a.no_archive /\ ~a.dry_run

ShouldArchive(a) == ~a.no_archive /\ ~a.dry_run

\* Mutant of FreeNextPath: the name is used whether it exists or not
FreeNextPath_NoLoop(next_num, suggested_title, next_filename, counter, existing) == next_filename

\* the `while next_path.exists()` loop of main
RECURSIVE FreeNextPath(_, _, _, _, _)
FreeNextPath(next_num, suggested_title, next_filename, counter, existing) ==
    IF next_filename \in existing
    THEN FreeNextPath(next_num, suggested_title,
                      "M" \o ToString(next_num) \o "_" \o suggested_title \o "_"
                          \o ToString(counter) \o ".md",
                      counter + 1, existing)
    ELSE next_filename

\* Mutant of NextPath: the file is named after the current number
NextPath_CurrentNumber(next_num, suggested_title, force, existing) ==
    "M" \o ToString(next_num - 1) \o "_" \o suggested_title \o "_next.md"

\* next_path of main
NextPath(next_num, suggested_title, force, existing) ==
    LET next_filename == "M" \o ToString(next_num) \o "_" \o suggested_title \o ".md"
    IN  IF next_filename \in existing /\ ~force
        THEN FreeNextPath(next_num, suggested_title,
                          "M" \o ToString(next_num) \o "_" \o suggested_title \o "_1.md",
                          2, existing)
        ELSE next_filename

Goto(label) == f_pc' = label /\ exit_code' = exit_code
Return(code) == f_pc' = "exit" /\ exit_code' = code

Ask(prompt) == prompts' = Append(prompts, [prompt |-> prompt, answer |-> "pending"])
Answered(yes) ==
    prompts' = [prompts EXCEPT ![Len(prompts)].answer = IF yes THEN "yes" ELSE "no"]

\* main, lines 335-357: find or validate the current milestone
main_find_milestone ==
    /\ f_pc = "start"
    /\ IF args.milestone # ""
       THEN LET upper == Upper(args.milestone)
                milestone_id == IF StartsWith(upper, "M") THEN upper ELSE "M" \o upper
                milestone_files == Glob(DOMAIN ms_files, milestone_id \o "_")
            IN  IF milestone_files = {}
                THEN Return(2) /\ UNCHANGED cur
                ELSE IF ~SearchNumber(milestone_id).match
                THEN \* AttributeError on None.group: the interpreter exits with 1
                     Return(1) /\ UNCHANGED cur
                ELSE /\ \E milestone_path \in milestone_files :
                           cur' = [found |-> TRUE, id |-> milestone_id,
                                   path |-> milestone_path,
                                   num |-> SearchNumber(milestone_id).num]
                     /\ Goto("check_complete")
       ELSE \E result \in find_current_milestone(DOMAIN ms_files) :
               IF ~result.found
               THEN Return(2) /\ UNCHANGED cur
               ELSE cur' = result /\ Goto("check_complete")
    /\ UNCHANGED <<ms_files, hist_files, today, args, prompts, steps, draft,
                   next_path, archive_results, aggVars, apiVars, cfgVars, toolVars>>

\* main, lines 362-375
main_check_complete ==
    /\ f_pc = "check_complete"
    /\ IF ~check_milestone_complete(ms_files[cur.path]).is_complete /\ ~args.force
       THEN Ask("Proceed anyway?") /\ Goto("confirm_proceed")
       ELSE Goto("check_next") /\ UNCHANGED prompts
    /\ UNCHANGED <<ms_files, hist_files, today, args, cur, steps, draft,
                   next_path, archive_results, aggVars, apiVars, cfgVars, toolVars>>

main_confirm_proceed ==
    /\ f_pc = "confirm_proceed"
    /\ \E answer \in Answers :
          /\ Answered(confirm_action(answer))
          /\ IF confirm_action(answer) THEN Goto("check_next") ELSE Return(4)
    /\ UNCHANGED <<ms_files, hist_files, today, args, cur, steps, draft,
                   next_path, archive_results, aggVars, apiVars, cfgVars, toolVars>>

\* main, lines 377-394
main_check_next ==
    /\ f_pc = "check_next"
    /\ LET next_id == "M" \o ToString(cur.num + 1)
           existing_next == Glob(DOMAIN ms_files, next_id \o "_")
       IN  IF existing_next = {}
           THEN Goto("archive") /\ UNCHANGED prompts
           ELSE \E first \in existing_next :
                   IF check_milestone_complete(ms_files[first]).is_complete
                   THEN Goto("archive") /\ UNCHANGED prompts
                   ELSE IF ~args.force
                   THEN Return(2) /\ UNCHANGED prompts
                   ELSE /\ Ask("Overwrite incomplete " \o next_id \o "?")
                        /\ Goto("confirm_overwrite")
    /\ UNCHANGED <<ms_files, hist_files, today, args, cur, steps, draft,
                   next_path, archive_results, aggVars, apiVars, cfgVars, toolVars>>

main_confirm_overwrite ==
    /\ f_pc = "confirm_overwrite"
    /\ \E answer \in Answers :
          /\ Answered(confirm_action(answer))
          /\ IF confirm_action(answer) THEN Goto("archive") ELSE Return(4)
    /\ UNCHANGED <<ms_files, hist_files, today, args, cur, steps, draft,
                   next_path, archive_results, aggVars, apiVars, cfgVars, toolVars>>

\* main, lines 396-403
main_archive ==
    /\ f_pc = "archive"
    /\ IF ShouldArchive(args)
       THEN \E fault \in BOOLEAN :
               LET r == archive_milestone(cur.path, fault)
               IN  /\ hist_files' = r.history
                   /\ archive_results' = Append(archive_results,
                                                [ok |-> r.ok, archive_path |-> r.archive_path])
                   /\ steps' = Append(steps, IF r.ok THEN "archived" ELSE "archive_failed")
                   /\ IF ~r.ok /\ ~args.force
                      THEN Ask("Archive failed. Continue anyway?") /\ Goto("confirm_archive")
                      ELSE Goto("query") /\ UNCHANGED prompts
       ELSE Goto("query") /\ UNCHANGED <<hist_files, archive_results, steps, prompts>>
    /\ UNCHANGED <<ms_files, today, args, cur, draft, next_path, aggVars, apiVars, cfgVars, toolVars>>

\* Mutant of main_confirm_archive: a declined prompt ends the run as cancelled
main_confirm_archive_Cancelled ==
    /\ f_pc = "confirm_archive"
    /\ \E answer \in Answers :
          /\ Answered(confirm_action(answer))
          /\ IF confirm_action(answer) THEN Goto("query") ELSE Return(4)
    /\ UNCHANGED <<ms_files, hist_files, today, args, cur, steps, draft,
                   next_path, archive_results, aggVars, apiVars, cfgVars, toolVars>>

main_confirm_archive ==
    /\ f_pc = "confirm_archive"
    /\ \E answer \in Answers :
          /\ Answered(confirm_action(answer))
          /\ IF confirm_action(answer) THEN Goto("query") ELSE Return(3)
    /\ UNCHANGED <<ms_files, hist_files, today, args, cur, steps, draft,
                   next_path, archive_results, aggVars, apiVars, cfgVars, toolVars>>

\* main, lines 405-458: the Lead DEV query, the draft and the output name
main_query ==
    /\ f_pc = "query"
    /\ LET milestone_context == extract_milestone_context(ms_files[cur.path])
           prompt == construct_next_milestone_prompt(cur.id, milestone_context,
                                                     get_architecture_summary)
       IN  \E out \in LeadOutcomes(prompt) :
              IF out.raises \/ ~out.response.success
              THEN Return(1) /\ UNCHANGED <<draft, steps, next_path>>
              ELSE LET milestone_content == parse_milestone_response(out.response.content)
                       d == IF milestone_content = None
                               \/ Contains(out.response.content, "[STUB")
                            THEN generate_stub_next_milestone(cur.num, milestone_context)
                            ELSE [content |-> milestone_content[1],
                                  title |-> "Continuation"]
                   IN  /\ draft' = d
                       /\ steps' = Append(steps, "drafted")
                       /\ next_path' = NextPath(cur.num + 1, d.title, args.force,
                                                DOMAIN ms_files)
                       /\ Goto("write")
    /\ UNCHANGED <<ms_files, hist_files, today, args, cur, prompts,
                   archive_results, aggVars, apiVars, cfgVars, toolVars>>

\* main, lines 460-485
main_write ==
    /\ f_pc = "write"
    /\ IF args.dry_run
       THEN Return(0) /\ UNCHANGED <<ms_files, steps>>
       ELSE \E fault \in BOOLEAN :
               IF fault
               THEN Return(3) /\ UNCHANGED <<ms_files, steps>>
               ELSE /\ ms_files' = CopyInto(ms_files, next_path, draft.content)
                    /\ steps' = Append(steps, "written")
                    /\ Return(0)
    /\ UNCHANGED <<hist_files, today, args, cur, prompts, draft, next_path,
                   archive_results, aggVars, apiVars, cfgVars, toolVars>>

-----------------------------------------------------------------------------
(* config.py: Config, and the mode selection of LeadDevInterface           *)

\* Python values of the configuration tree: a string, an int, a bool, None or
\* a dict from keys to values
NoEntries == [k \in {} |-> 0]
StrVal(s) == [t |-> "str", s |-> s, n |-> 0, d |-> NoEntries]
IntVal(n) == [t |-> "int", s |-> "", n |-> n, d |-> NoEntries]
BoolVal(b) == [t |-> "bool", s |-> "", n |-> IF b THEN 1 ELSE 0, d |-> NoEntries]
NoneVal == [t |-> "none", s |-> "", n |-> 0, d |-> NoEntries]
DictVal(d) == [t |-> "dict", s |-> "", n |-> 0, d |-> d]
EmptyDict == DictVal(NoEntries)

\* bool(v)
Truthy(v) ==
    CASE v.t = "str"  -> v.s # ""
      [] v.t = "int"  -> v.n # 0
      [] v.t = "bool" -> v.n = 1
      [] v.t = "dict" -> DOMAIN v.d # {}
      [] OTHER        -> FALSE

\* Config.DEFAULTS
DEFAULTS ==
    DictVal(
      [section \in {"lead_dev", "context", "output", "project"} |->
         CASE section = "lead_dev" ->
                DictVal([k \in {"interface", "timeout", "retry_count", "retry_delay"} |->
                           CASE k = "interface"   -> StrVal("gemini-cli")
                             [] k = "timeout"     -> IntVal(30)
                             [] k = "retry_count" -> IntVal(3)
                             [] OTHER             -> IntVal(5)])
           [] section = "context" ->
                DictVal([k \in {"max_tokens", "include_architecture", "include_roadmap",
                                "truncation_strategy"} |->
                           CASE k = "max_tokens"           -> IntVal(8000)
                             [] k = "include_architecture" -> BoolVal(TRUE)
                             [] k = "include_roadmap"      -> BoolVal(FALSE)
                             [] OTHER                      -> StrVal("recent_first")])
           [] section = "output" ->
                DictVal([k \in {"default_format", "include_timestamps", "log_queries",
                                "log_file"} |->
                           CASE k = "default_format"     -> StrVal("text")
                             [] k = "include_timestamps" -> BoolVal(TRUE)
                             [] k = "log_queries"        -> BoolVal(TRUE)
                             [] OTHER                    -> StrVal("tools/logs/bridge.log")])
           [] OTHER ->
                DictVal([k \in {"docs_path", "milestones_path", "architecture_file",
                                "roadmap_file", "workflow_file"} |->
                           CASE k = "docs_path"         -> StrVal("docs/")
                             [] k = "milestones_path"   -> StrVal("docs/01_milestones/")
                             [] k = "architecture_file" -> StrVal("docs/00_global/ARCHITECTURE.md")
                             [] k = "roadmap_file"      -> StrVal("docs/00_global/ROADMAP.md")
                             [] OTHER                   -> StrVal("docs/00_global/WORKFLOW.md")])])

\* Config.ENV_MAPPINGS without HMAS_CONFIG_PATH, in the order of the dict
ENV_MAPPINGS ==
    << [env_var |-> "HMAS_LEAD_INTERFACE",     section |-> "lead_dev", key |-> "interface"],
       [env_var |-> "HMAS_CONTEXT_MAX_TOKENS", section |-> "context",  key |-> "max_tokens"],
       [env_var |-> "HMAS_LOG_LEVEL",          section |-> "output",   key |-> "log_level"] >>

\* dict.update(other) on the entries of two dicts
DictUpdate(d, other) ==
    [k \in DOMAIN d \cup DOMAIN other |-> IF k \in DOMAIN other THEN other[k] ELSE d[k]]

\* Config._merge_config: the new self._config (both arguments are dict values)
_merge_config(cfg, new_config) ==
    DictVal([key \in DOMAIN cfg.d \cup DOMAIN new_config.d |->
               IF key \notin DOMAIN new_config.d THEN cfg.d[key]
               ELSE IF /\ key \in DOMAIN cfg.d
                       /\ cfg.d[key].t = "dict"
                       /\ new_config.d[key].t = "dict"
                    THEN DictVal(DictUpdate(cfg.d[key].d, new_config.d[key].d))
                    ELSE new_config.d[key]])

\* dict.get(key, {})
DictGet(v, key) == IF key \in DOMAIN v.d THEN v.d[key] ELSE EmptyDict

\* A file at the place a config file is looked for: whether it exists, whether
\* open() succeeds, whether yaml.safe_load succeeds, and the document loaded
NoFile == [exists |-> FALSE, readable |-> FALSE, parses |-> FALSE, doc |-> NoneVal]
YamlFile(doc) == [exists |-> TRUE, readable |-> TRUE, parses |-> TRUE, doc |-> doc]

\* Config._load_yaml_config(None): the new self._config
_load_yaml_config(cfg, yaml_ok, env, fs) ==
    LET config_path == IF env["HMAS_CONFIG_PATH"] # None
                       THEN env["HMAS_CONFIG_PATH"][1]
                       ELSE "tools/config.yaml"
        file == fs[config_path]
        yaml_config == file.doc
        bridge_config == DictGet(yaml_config, "bridge")
        project_config == DictGet(yaml_config, "project")
        merged == IF Truthy(bridge_config) THEN _merge_config(cfg, bridge_config) ELSE cfg
    IN  IF ~yaml_ok THEN cfg
        ELSE IF ~file.exists THEN cfg
        ELSE IF ~file.readable \/ ~file.parses THEN cfg
        ELSE IF ~(Truthy(yaml_config) /\ yaml_config.t = "dict") THEN cfg
        ELSE IF Truthy(bridge_config) /\ bridge_config.t # "dict"
             THEN cfg     \* AttributeError in _merge_config, swallowed by the except
        ELSE IF Truthy(project_config)
             THEN _merge_config(merged,
                                DictVal([k \in {"project"} |-> project_config]))
        ELSE merged

IsSign(c) == c \in {"+", "-"}

\* int(value) for a str: whether it parses, and the number
PyInt(value) ==
    LET stripped == Strip(value)
        digits == IF IsSign(Ch(stripped, 1))
                  THEN SubSeq(stripped, 2, Len(stripped)) ELSE stripped
    IN  IF Len(digits) > 0 /\ \A i \in 1..Len(digits) : IsDigit(Ch(digits, i))
        THEN [ok |-> TRUE,
              n |-> IF Ch(stripped, 1) = "-" THEN 0 - ParseInt(digits) ELSE ParseInt(digits)]
        ELSE [ok |-> FALSE, n |-> 0]

\* Config._load_env_variables from the i-th mapping on: the exception raised
\* (<<>> if none) and the new self._config
RECURSIVE _load_env_variables(_, _, _)
_load_env_variables(cfg, env, i) ==
    IF i > Len(ENV_MAPPINGS) THEN [raised |-> None, config |-> cfg]
    ELSE LET m == ENV_MAPPINGS[i]
             value == env[m.env_var]
         IN  IF value = None THEN _load_env_variables(cfg, env, i + 1)
             ELSE IF m.key = "max_tokens" /\ ~PyInt(value[1]).ok
             THEN [raised |-> Some(Exc("ValueError",
                       "invalid literal for int() with base 10: '" \o value[1] \o "'")),
                   config |-> cfg]
             ELSE IF m.section \notin DOMAIN cfg.d
             THEN [raised |-> Some(Exc("KeyError", m.section)), config |-> cfg]
             ELSE IF cfg.d[m.section].t # "dict"
             THEN [raised |-> Some(Exc("TypeError",
                       "object does not support item assignment")),
                   config |-> cfg]
             ELSE LET v == IF m.key = "max_tokens" THEN IntVal(PyInt(value[1]).n)
                           ELSE StrVal(value[1])
                      section == DictVal(DictUpdate(cfg.d[m.section].d,
                                                    [k \in {m.key} |-> v]))
                  IN  _load_env_variables(
                          DictVal(DictUpdate(cfg.d, [k \in {m.section} |-> section])),
                          env, i + 1)

\* Config.get(*keys, default=default)
RECURSIVE ConfigGet(_, _, _)
ConfigGet(current, keys, default) ==
    IF Len(keys) = 0 THEN current
    ELSE IF current.t = "dict" /\ keys[1] \in DOMAIN current.d
         THEN ConfigGet(current.d[keys[1]], Tail(keys), default)
         ELSE default

\* InterfaceMode
InterfaceModes == {"interactive", "stub", "api"}

\* `config_mode = self.config.get("bridge.lead_dev", "mode")`
ConfigModeKeys == <<"bridge.lead_dev", "mode">>

\* The mode selection of LeadDevInterface.__init__: the exception raised
\* (<<>> if none) and self._mode; mode_arg "" is None
SelectMode(cfg, mode_arg) ==
    LET config_mode == ConfigGet(cfg, ConfigModeKeys, NoneVal)
        chosen == IF mode_arg # "" THEN StrVal(mode_arg) ELSE config_mode
    IN  IF mode_arg = "" /\ ~Truthy(config_mode)
        THEN [raised |-> None, mode |-> "interactive"]
        ELSE IF chosen.t = "str" /\ chosen.s \in InterfaceModes
        THEN [raised |-> None, mode |-> chosen.s]
        ELSE [raised |-> Some(Exc("ValueError", "not a valid InterfaceMode")),
              mode |-> ""]

\* One-entry and nested dicts of the documents below
Entry(k, v) == [x \in {k} |-> v]
SectionOf(name, k, v) == Entry(name, DictVal(Entry(k, v)))

\* Documents yaml.safe_load can give: nothing, the mode under lead_dev, the
\* mode under the key the interface reads, the three overridable keys, sections
\* replaced by scalars, a scalar bridge section, a scalar project section, a
\* partial section with a string for the number
ConfigDocs ==
    { NoneVal,
      DictVal(Entry("bridge", DictVal(SectionOf("lead_dev", "mode", StrVal("stub"))))),
      DictVal(Entry("bridge", DictVal(SectionOf("bridge.lead_dev", "mode", StrVal("api"))))),
      DictVal(Entry("bridge",
          DictVal([k \in {"lead_dev", "context", "output"} |->
                     CASE k = "lead_dev" -> DictVal(Entry("interface", StrVal("api")))
                       [] k = "context"  -> DictVal(Entry("max_tokens", IntVal(100)))
                       [] OTHER          -> DictVal(Entry("log_level", StrVal("INFO")))]))),
      DictVal(Entry("bridge",
          DictVal([k \in {"lead_dev", "context"} |->
                     IF k = "lead_dev" THEN StrVal("gemini") ELSE IntVal(5)]))),
      DictVal(Entry("bridge", IntVal(5))),
      DictVal(Entry("project", StrVal("docs"))),
      DictVal(Entry("bridge", DictVal(SectionOf("context", "max_tokens", StrVal("many"))))) }

ConfigFileStates ==
    { NoFile,
      [exists |-> TRUE, readable |-> FALSE, parses |-> FALSE, doc |-> NoneVal],
      [exists |-> TRUE, readable |-> TRUE, parses |-> FALSE, doc |-> NoneVal] }
        \cup {YamlFile(doc) : doc \in ConfigDocs}

CustomFileStates ==
    { NoFile,
      YamlFile(DictVal(Entry("bridge", DictVal(SectionOf("context", "max_tokens",
                                                        IntVal(64)))))) }

Environments ==
    [ HMAS_CONFIG_PATH        : {None, Some("custom.yaml")},
      HMAS_LEAD_INTERFACE     : {None, Some("api")},
      HMAS_CONTEXT_MAX_TOKENS : {None, Some("20"), Some(" 12 "), Some("abc")},
      HMAS_LOG_LEVEL          : {None, Some("DEBUG")} ]

\* Config.__init__(config_path=None)
Config__init__ ==
    /\ cf_pc = "new"
    /\ LET loaded == _load_yaml_config(DEFAULTS, yaml_available, environ, cfg_files)
           r == _load_env_variables(loaded, environ, 1)
       IN  /\ _config' = r.config
           /\ cf_raised' = r.raised
           /\ cf_pc' = IF r.raised = None THEN "ready" ELSE "raised"
    /\ UNCHANGED <<yaml_available, cfg_files, environ, cf_got, iface,
                   aggVars, apiVars, fetchVars, toolVars>>

\* Key paths the tools ask for
GetKeys ==
    { <<"lead_dev", "interface">>, <<"context", "max_tokens">>, <<"output", "log_level">>,
      <<"lead_dev", "mode">>, <<"bridge.lead_dev", "mode">>, <<"project", "milestones_path">> }

NoGet == [keys |-> <<>>, default |-> NoneVal, value |-> NoneVal]

\* A call config.get(*keys, default=default)
Config_get ==
    /\ cf_pc = "ready"
    /\ \E keys \in GetKeys, default \in {NoneVal, IntVal(8000)} :
          cf_got' = [keys |-> keys, default |-> default,
                  value |-> ConfigGet(_config, keys, default)]
    /\ UNCHANGED <<yaml_available, cfg_files, environ, _config, cf_pc, cf_raised, iface,
                   aggVars, apiVars, fetchVars, toolVars>>

NoInterface == [state |-> "none", mode_arg |-> ""]

\* LeadDevInterface.__init__(config, mode=mode_arg)
LeadDevInterface__init__ ==
    /\ cf_pc = "ready"
    /\ iface.state = "none"
    /\ \E mode_arg \in {"", "stub", "api", "interactive", "gemini-cli"} :
          LET r == SelectMode(_config, mode_arg)
          IN  /\ iface' = [state |-> IF r.raised = None THEN "constructed" ELSE "raised",
                           mode_arg |-> mode_arg]
              /\ mode' = r.mode
    /\ UNCHANGED <<api_key_env, genai_installed, log_writable, cfg_retry,
                   gemini_provider, api_pc, api_op, attempt, last_error,
                   events, raised, response, log, ops_done, stdin>>
    /\ UNCHANGED <<yaml_available, cfg_files, environ, _config, cf_pc, cf_raised, cf_got,
                   aggVars, fetchVars, toolVars>>

-----------------------------------------------------------------------------
(* Initial states and specifications                                       *)

InitAggIdle ==
    /\ max_tokens = 0
    /\ architecture_file = NoPath
    /\ roadmap_file = NoPath
    /\ milestones_dir = [exists |-> FALSE, files |-> {}]
    /\ ag_pc = "idle"
    /\ ag_args = NoArgs
    /\ context = EmptyContext
    /\ ag_documents = <<>>
    /\ ag_aggregated = ""

InitApiIdle ==
    /\ api_key_env = [set |-> FALSE, value |-> ""]
    /\ genai_installed = FALSE
    /\ log_writable = FALSE
    /\ cfg_retry = [retry_count |-> 0, retry_delay |-> 0]
    /\ mode = "interactive"
    /\ gemini_provider = NoProvider
    /\ api_pc = "off"
    /\ api_op = NoOp
    /\ attempt = 0
    /\ last_error = None
    /\ events = <<>>
    /\ raised = None
    /\ response = None
    /\ log = <<>>
    /\ ops_done = 0
    /\ stdin = <<>>

\* A LeadDevInterface constructed with mode="api", in each environment
InitApi ==
    /\ api_key_env \in {[set |-> FALSE, value |-> ""]}
                       \cup {[set |-> TRUE, value |-> v] :
                               v \in {"", "your_api_key_here", "AIza-valid-key"}}
    /\ genai_installed \in BOOLEAN
    /\ log_writable \in BOOLEAN
    /\ cfg_retry \in [retry_count : 1..MaxRetryCount, retry_delay : 1..MaxRetryDelay]
    /\ mode = "api"
    /\ gemini_provider = NoProvider
    /\ api_pc = "idle"
    /\ api_op = NoOp
    /\ attempt = 0
    /\ last_error = None
    /\ events = <<>>
    /\ raised = None
    /\ response = None
    /\ log = <<>>
    /\ ops_done = 0
    /\ stdin = <<>>

NoCur == [found |-> FALSE, id |-> "", path |-> "", num |-> 0]
NoDraft == [content |-> "", title |-> ""]
NoArguments == [milestone |-> "", dry_run |-> FALSE, force |-> FALSE, no_archive |-> FALSE]
EmptyDir == [f \in {} |-> ""]

InitFetchIdle ==
    /\ ms_files = EmptyDir
    /\ hist_files = EmptyDir
    /\ today = Dates[1]
    /\ args = NoArguments
    /\ f_pc = "off"
    /\ cur = NoCur
    /\ prompts = <<>>
    /\ steps = <<>>
    /\ draft = NoDraft
    /\ next_path = ""
    /\ exit_code = -1
    /\ archive_results = <<>>

\* No Config under construction
NoFiles == [p \in {"tools/config.yaml", "custom.yaml"} |-> NoFile]
NoEnviron ==
    [HMAS_CONFIG_PATH |-> None, HMAS_LEAD_INTERFACE |-> None,
     HMAS_CONTEXT_MAX_TOKENS |-> None, HMAS_LOG_LEVEL |-> None]

InitCfgIdle ==
    /\ yaml_available = FALSE
    /\ cfg_files = NoFiles
    /\ environ = NoEnviron
    /\ _config = DEFAULTS
    /\ cf_pc = "off"
    /\ cf_raised = None
    /\ cf_got = NoGet
    /\ iface = NoInterface

\* No command of report_progress.py, status_check.py or handoff.py runs
NoToolArguments == [milestone |-> "", next |-> FALSE]

InitToolIdle ==
    /\ t_cmd = "none"
    /\ t_args = NoToolArguments
    /\ t_pc = "off"
    /\ t_milestone = ""
    /\ t_milestone_path = None
    /\ t_milestone_id = ""
    /\ t_exit = -1
    /\ t_fault = None

-----------------------------------------------------------------------------
(* report_progress.py and status_check.py: the milestone a run works against *)

\* detect_milestone of report_progress.py: the stem of the first file the
\* glob yields. The order of a directory listing is the file system's, so any
\* of the files can be the first.
detect_milestone(dir) ==
    IF dir.exists /\ GlobMilestones(dir.files) # {}
    THEN {Stem(f) : f \in GlobMilestones(dir.files)}
    ELSE {"Unknown"}

\* detect_milestone of status_check.py
status_check_detect_milestone(dir) ==
    IF dir.exists /\ GlobMilestones(dir.files) # {}
    THEN {Stem(f) : f \in GlobMilestones(dir.files)}
    ELSE {"Unknown"}

\* milestone = args.milestone or detect_milestone(config), in main
report_progress_main_milestone ==
    /\ t_cmd = "report_progress"
    /\ t_pc = "start"
    /\ t_milestone' \in (IF t_args.milestone # "" THEN {t_args.milestone}
                         ELSE detect_milestone(milestones_dir))
    /\ t_pc' = "milestone"
    /\ UNCHANGED <<t_cmd, t_args, t_milestone_path, t_milestone_id, t_exit, t_fault,
                   aggVars, apiVars, fetchVars, cfgVars>>

\* result.current_milestone of status_check main: args.milestone if given,
\* else detect_milestone(config)
status_check_main_milestone ==
    /\ t_cmd = "status_check"
    /\ t_pc = "start"
    /\ t_milestone' \in (IF t_args.milestone # "" THEN {t_args.milestone}
                         ELSE status_check_detect_milestone(milestones_dir))
    /\ t_pc' = "milestone"
    /\ UNCHANGED <<t_cmd, t_args, t_milestone_path, t_milestone_id, t_exit, t_fault,
                   aggVars, apiVars, fetchVars, cfgVars>>

-----------------------------------------------------------------------------
(* handoff.py: the target milestone of main                                *)

\* find_milestone_by_id: the first file of glob(f"{t_milestone_id}_*.md") for
\* the normalised id, None when the glob yields nothing
find_milestone_by_id(names, id) ==
    LET normalised == IF ~StartsWith(Upper(id), "M") THEN "M" \o id ELSE Upper(id)
        found      == Glob(names, normalised \o "_")
    IN  IF found = {} THEN {None} ELSE {Some(f) : f \in found}

\* "Determine target milestone" of main. find_current_milestone of handoff.py
\* is the function of fetch_next.py, line for line.
handoff_main_target ==
    /\ t_cmd = "handoff"
    /\ t_pc = "start"
    /\ IF t_args.milestone # ""
       THEN \E mp \in find_milestone_by_id(milestones_dir.files, t_args.milestone) :
                IF mp = None
                THEN /\ t_pc' = "exit" /\ t_exit' = 2
                     /\ UNCHANGED <<t_milestone_path, t_milestone_id>>
                ELSE /\ t_milestone_path' = mp
                     /\ t_milestone_id' = Upper(t_args.milestone)
                     /\ t_pc' = "resolved"
                     /\ UNCHANGED t_exit
       ELSE \E current \in find_current_milestone(milestones_dir.files) :
                IF ~current.found
                THEN /\ t_pc' = "exit" /\ t_exit' = 1
                     /\ UNCHANGED <<t_milestone_path, t_milestone_id>>
                ELSE IF t_args.next
                THEN LET next_id == "M" \o ToString(current.num + 1)
                     IN  \E mp \in find_milestone_by_id(milestones_dir.files, next_id) :
                             /\ IF mp = None
                                THEN /\ t_milestone_path' \in
                                          find_milestone_by_id(milestones_dir.files, current.id)
                                     /\ t_milestone_id' = current.id
                                ELSE /\ t_milestone_path' = mp
                                     /\ t_milestone_id' = next_id
                             /\ t_pc' = "resolved"
                             /\ UNCHANGED t_exit
                ELSE /\ t_milestone_path' = Some(current.path)
                     /\ t_milestone_id' = current.id
                     /\ t_pc' = "resolved"
                     /\ UNCHANGED t_exit
    /\ UNCHANGED <<t_cmd, t_args, t_milestone, t_fault,
                   aggVars, apiVars, fetchVars, cfgVars>>

\* extract_milestone_info(t_milestone_path): t_milestone_path.read_text of None
\* is an AttributeError, which nothing in main catches
handoff_main_extract ==
    /\ t_cmd = "handoff"
    /\ t_pc = "resolved"
    /\ IF t_milestone_path = None
       THEN t_pc' = "fault" /\ t_fault' = Some("AttributeError")
       ELSE t_pc' = "extracted" /\ UNCHANGED t_fault
    /\ UNCHANGED <<t_cmd, t_args, t_milestone, t_milestone_path, t_milestone_id, t_exit,
                   aggVars, apiVars, fetchVars, cfgVars>>

InitAgg ==
    /\ InitCfgIdle
    /\ InitToolIdle
    /\ InitApiIdle
    /\ InitFetchIdle
    /\ max_tokens \in 1..MaxTokens
    /\ architecture_file \in
         { NoPath,
           [exists |-> TRUE, readable |-> TRUE, name |-> "ARCHITECTURE.md", text |-> ArchText],
           [exists |-> TRUE, readable |-> FALSE, name |-> "ARCHITECTURE.md", text |-> ArchText] }
    /\ roadmap_file \in
         { NoPath,
           [exists |-> TRUE, readable |-> TRUE, name |-> "ROADMAP.md", text |-> RoadmapText] }
    /\ milestones_dir \in
         {[exists |-> FALSE, files |-> {}]}
         \cup {[exists |-> TRUE, files |-> fs] : fs \in SUBSET MsNames}
    /\ ag_pc = "ready"
    /\ ag_args = NoArgs
    /\ context = EmptyContext
    /\ ag_documents = <<>>
    /\ ag_aggregated = ""

NextAgg == Aggregate

SpecAgg == InitAgg /\ [][NextAgg]_vars

NextApi ==
    \/ _api_query
    \/ _api_report_progress
    \/ _api_validate_status
    \/ generate_content
    \/ sleep

InitSpecApi ==
    /\ InitCfgIdle
    /\ InitToolIdle
    /\ InitApi
    /\ InitAggIdle
    /\ InitFetchIdle

\* A milestone file about to be archived, and a history directory that may
\* hold copies of it from earlier calls
InitArchive ==
    /\ InitCfgIdle
    /\ InitToolIdle
    /\ InitApiIdle
    /\ InitAggIdle
    /\ ms_files \in {[f \in {"M1_Setup.md"} |-> d] : d \in {DoneDoc, TodoDoc}}
    /\ hist_files \in
         {[f \in S |-> "# M1 (an earlier copy)"] :
            S \in SUBSET {"M1_Setup_20261105.md", "M1_Setup_20261105_1.md",
                          "M1_Setup_20261105_2.md"}}
    /\ today = Dates[1]
    /\ args = NoArguments
    /\ f_pc = "archiving"
    /\ cur = [found |-> TRUE, id |-> "M1", path |-> "M1_Setup.md", num |-> 1]
    /\ prompts = <<>>
    /\ steps = <<>>
    /\ draft = NoDraft
    /\ next_path = ""
    /\ exit_code = -1
    /\ archive_results = <<>>

NextArchive ==
    \/ archive_call
    \/ mark_items_done
    \/ midnight

SpecArchive == InitArchive /\ [][NextArchive]_vars

\* The milestones directories a run of fetch_next starts in
MilestoneNames == {"M1_Setup.md", "M2_Auth.md", "M2_Continuation.md", "M2_Continuation_1.md"}
\* a document with an unchecked box that has no text, above a checked item
BareItemDoc == "# M1\n## Phases\n- [ ]\n- [x] write docs"
MilestoneDocs == {DoneDoc, TodoDoc, BareItemDoc}
ArchitectureDoc ==
    [exists |-> TRUE, readable |-> TRUE, name |-> "ARCHITECTURE.md", text |-> ArchText]

InitFetch ==
    /\ InitCfgIdle
    /\ InitToolIdle
    /\ InitApiIdle
    /\ max_tokens = 0
    /\ architecture_file \in {NoPath, ArchitectureDoc}
    /\ roadmap_file = NoPath
    /\ milestones_dir = [exists |-> FALSE, files |-> {}]
    /\ ag_pc = "idle"
    /\ ag_args = NoArgs
    /\ context = EmptyContext
    /\ ag_documents = <<>>
    /\ ag_aggregated = ""
    /\ ms_files \in {f \in UNION {[S -> MilestoneDocs] : S \in SUBSET MilestoneNames} :
                       "M2_Continuation_1.md" \in DOMAIN f =>
                           /\ "M2_Continuation.md" \in DOMAIN f
                           /\ f["M2_Continuation_1.md"] = DoneDoc}
    /\ hist_files \in {[f \in S |-> "# M1 (an earlier copy)"] :
                          S \in SUBSET {"M1_Setup_20261105.md"}}
    /\ today = Dates[1]
    /\ args \in [milestone : {"", "m1", "3"}, dry_run : BOOLEAN, force : BOOLEAN,
                  no_archive : BOOLEAN]
    /\ f_pc = "start"
    /\ cur = NoCur
    /\ prompts = <<>>
    /\ steps = <<>>
    /\ draft = NoDraft
    /\ next_path = ""
    /\ exit_code = -1
    /\ archive_results = <<>>

NextFetch ==
    \/ main_find_milestone
    \/ main_check_complete
    \/ main_confirm_proceed
    \/ main_check_next
    \/ main_confirm_overwrite
    \/ main_archive
    \/ main_confirm_archive
    \/ main_query
    \/ main_write

SpecFetch == InitFetch /\ [][NextFetch]_vars

\* A command starts: Config() is about to be constructed in some environment,
\* and a LeadDevInterface is constructed on it afterwards
InitConfig ==
    /\ InitAggIdle
    /\ InitFetchIdle
    /\ InitToolIdle
    /\ api_key_env = [set |-> FALSE, value |-> ""]
    /\ genai_installed = FALSE
    /\ log_writable = FALSE
    /\ cfg_retry = [retry_count |-> 0, retry_delay |-> 0]
    /\ mode = ""
    /\ gemini_provider = NoProvider
    /\ api_pc = "off"
    /\ api_op = NoOp
    /\ attempt = 0
    /\ last_error = None
    /\ events = <<>>
    /\ raised = None
    /\ response = None
    /\ log = <<>>
    /\ ops_done = 0
    /\ stdin = <<>>
    /\ yaml_available \in BOOLEAN
    /\ cfg_files \in {[p \in {"tools/config.yaml", "custom.yaml"} |->
                       IF p = "custom.yaml" THEN c ELSE f] :
                    f \in ConfigFileStates, c \in CustomFileStates}
    /\ environ \in Environments
    /\ _config = EmptyDict
    /\ cf_pc = "new"
    /\ cf_raised = None
    /\ cf_got = NoGet
    /\ iface = NoInterface

NextConfig ==
    \/ Config__init__
    \/ Config_get
    \/ LeadDevInterface__init__

SpecConfig == InitConfig /\ [][NextConfig]_vars

SpecApi == InitSpecApi /\ [][NextApi]_vars

\* A LeadDevInterface constructed in each of its modes. The key, the package
\* and the retry settings matter to the API mode only.
InitInterface ==
    /\ InitCfgIdle
    /\ InitToolIdle
    /\ InitAggIdle
    /\ InitFetchIdle
    /\ mode \in InterfaceModes
    /\ log_writable \in BOOLEAN
    /\ api_key_env \in IF mode = "api"
                       THEN {[set |-> FALSE, value |-> ""],
                             [set |-> TRUE, value |-> "AIza-valid-key"]}
                       ELSE {[set |-> FALSE, value |-> ""]}
    /\ genai_installed \in IF mode = "api" THEN BOOLEAN ELSE {FALSE}
    /\ cfg_retry \in IF mode = "api"
                     THEN [retry_count : 1..MaxRetryCount, retry_delay : {1}]
                     ELSE {[retry_count |-> 3, retry_delay |-> 2]}
    /\ gemini_provider = NoProvider
    /\ api_pc = "idle"
    /\ api_op = NoOp
    /\ attempt = 0
    /\ last_error = None
    /\ events = <<>>
    /\ raised = None
    /\ response = None
    /\ log = <<>>
    /\ ops_done = 0
    /\ stdin \in IF mode = "interactive" THEN InputStreams ELSE {<<>>}

NextInterface ==
    \/ _stub_query
    \/ _stub_report_progress
    \/ _stub_validate_status
    \/ _interactive_query
    \/ _interactive_report_progress
    \/ _interactive_validate_status
    \/ _api_query
    \/ _api_report_progress
    \/ _api_validate_status
    \/ generate_content
    \/ sleep

SpecInterface == InitInterface /\ [][NextInterface]_vars

\* "max_tokens": 8000 of DEFAULTS
DEFAULT_MAX_TOKENS == 8000

\* A roadmap with a line that is set off by equals signs
RuledRoadmapText == "# Roadmap\n=== Phase plan ===\nM1 docs, then M2 bridge"

\* ask_lead: an aggregator over the project documents and an interface in
\* one of its modes; the API mode has its key and its package
InitAsk ==
    /\ InitCfgIdle
    /\ InitToolIdle
    /\ InitFetchIdle
    /\ max_tokens \in {MaxTokens, DEFAULT_MAX_TOKENS}
    /\ architecture_file \in
         { NoPath,
           [exists |-> TRUE, readable |-> TRUE, name |-> "ARCHITECTURE.md", text |-> ArchText],
           [exists |-> TRUE, readable |-> FALSE, name |-> "ARCHITECTURE.md", text |-> ArchText] }
    /\ roadmap_file \in
         { NoPath,
           [exists |-> TRUE, readable |-> TRUE, name |-> "ROADMAP.md", text |-> RoadmapText],
           [exists |-> TRUE, readable |-> TRUE, name |-> "ROADMAP.md",
            text |-> RuledRoadmapText] }
    /\ milestones_dir \in {[exists |-> FALSE, files |-> {}],
                           [exists |-> TRUE, files |-> {"M1_Doc.md"}]}
    /\ ag_pc = "ready"
    /\ ag_args = NoArgs
    /\ context = EmptyContext
    /\ ag_documents = <<>>
    /\ ag_aggregated = ""
    /\ mode \in InterfaceModes
    /\ log_writable = TRUE
    /\ api_key_env = [set |-> TRUE, value |-> "AIza-valid-key"]
    /\ genai_installed = TRUE
    /\ cfg_retry = [retry_count |-> 2, retry_delay |-> 1]
    /\ gemini_provider = NoProvider
    /\ api_pc = "idle"
    /\ api_op = NoOp
    /\ attempt = 0
    /\ last_error = None
    /\ events = <<>>
    /\ raised = None
    /\ response = None
    /\ log = <<>>
    /\ ops_done = 0
    /\ stdin \in IF mode = "interactive"
                 THEN {<<>>, <<"Use JWT tokens.", "", "">>}
                 ELSE {<<>>}

NextAsk ==
    \/ Aggregate
    \/ ask_lead_query
    \/ generate_content
    \/ sleep

SpecAsk == InitAsk /\ [][NextAsk]_vars

\* report_progress, status_check or handoff starts in some milestones
\* directory: names with one and two digits, a zero-padded number, and names
\* the glob yields that the pattern of find_current_milestone rejects
ToolMilestoneNames ==
    {"M1_Setup.md", "M2_Auth.md", "M10_Late.md", "M01_Setup.md", "Mx_y.md", "M3_.md"}

InitTools ==
    /\ InitCfgIdle
    /\ InitApiIdle
    /\ InitFetchIdle
    /\ max_tokens = 0
    /\ architecture_file = NoPath
    /\ roadmap_file = NoPath
    /\ milestones_dir \in
         {[exists |-> FALSE, files |-> {}]}
         \cup {[exists |-> TRUE, files |-> S] : S \in SUBSET ToolMilestoneNames}
    /\ ag_pc = "idle"
    /\ ag_args = NoArgs
    /\ context = EmptyContext
    /\ ag_documents = <<>>
    /\ ag_aggregated = ""
    /\ t_cmd \in {"report_progress", "status_check", "handoff"}
    /\ t_args \in [milestone : {"", "m1", "3"}, next : BOOLEAN]
    /\ (t_cmd # "handoff" => ~t_args.next)
    /\ t_pc = "start"
    /\ t_milestone = ""
    /\ t_milestone_path = None
    /\ t_milestone_id = ""
    /\ t_exit = -1
    /\ t_fault = None

NextTools ==
    \/ report_progress_main_milestone
    \/ status_check_main_milestone
    \/ handoff_main_target
    \/ handoff_main_extract

SpecTools == InitTools /\ [][NextTools]_vars

-----------------------------------------------------------------------------
(* C1: for every call of ContextAggregator.aggregate the returned context  *)
(* satisfies len(query)+len(phase)+len(documents)+len(git_status)          *)
(* <= max_tokens * 4.                                                      *)
C1_SizeInvariant ==
    ag_pc = "returned" => TotalChars(context) <= max_tokens * CHARS_PER_TOKEN

-----------------------------------------------------------------------------
(* Claims about the API mode (checked under SpecApi)                       *)

IsCall(e) == e.kind = "call"
CallCount == Cardinality({i \in 1..Len(events) : IsCall(events[i])})
SleepCount == Cardinality({i \in 1..Len(events) : events[i].kind = "sleep"})
\* the call raised
CallRaised(e) == IsCall(e) /\ e.out.raises
\* the call gave no usable text: it raised or its response text was empty
CallFailed(e) == IsCall(e) /\ (e.out.raises \/ e.out.text = "")
\* the error the retry loop keeps for a failed call
ErrorOf(e) == IF e.out.raises THEN e.out.error ELSE "Empty response from Gemini API"
ApiDone(name) == mode = "api" /\ api_pc = "done" /\ api_op.name = name
\* GEMINI_API_KEY is unset, empty or the placeholder
CredentialUnusable ==
    \/ ~api_key_env.set
    \/ api_key_env.value \in {"", "your_api_key_here"}

(* C2: GeminiProvider.query against a service whose every call fails makes *)
(* exactly retry_count attempts, sleeps retry_delay*k after the k-th       *)
(* failed attempt for k = 1..retry_count-1, and raises                     *)
(* GeminiConnectionError, carrying the last underlying error, only after   *)
(* the last attempt.                                                       *)
C2_QueryRetriesThenRaises ==
    /\ ( /\ api_op.name = "query"
         /\ raised # None
         /\ raised[1].cls = "GeminiConnectionError" )
       => CallCount = gemini_provider.retry_count
    /\ ( /\ ApiDone("query")
         /\ Len(events) > 0
         /\ \A i \in 1..Len(events) : IsCall(events[i]) => CallFailed(events[i]) )
       => /\ CallCount = gemini_provider.retry_count
          /\ Len(events) = 2 * gemini_provider.retry_count - 1
          /\ \A i \in 1..Len(events) :
                IF i % 2 = 1
                THEN IsCall(events[i])
                ELSE /\ events[i].kind = "sleep"
                     /\ events[i].seconds = gemini_provider.retry_delay * (i \div 2)
          /\ raised # None
          /\ raised[1].cls = "GeminiConnectionError"
          /\ EndsWith(raised[1].msg, ": " \o ErrorOf(events[Len(events)]))
          /\ last_error # None
          /\ last_error[1].msg = ErrorOf(events[Len(events)])
          /\ response # None
          /\ ~response[1].success

C2_Witness ==
    /\ ApiDone("query")
    /\ gemini_provider.retry_count = 3
    /\ Len(events) = 5
    /\ \A i \in 1..Len(events) : IsCall(events[i]) => CallRaised(events[i])
    /\ events[1].out.error # events[5].out.error
    /\ raised # None
    /\ raised[1].cls = "GeminiConnectionError"

(* C3 (as stated): in API mode report_progress and validate_status never   *)
(* return an envelope with success=False, whatever the backend failure     *)
(* (missing or placeholder credential included).                           *)
C3_NeverHardFailure ==
    (ApiDone("report_progress") \/ ApiDone("validate_status"))
    => (response # None /\ response[1].success)

(* C3 (amended): in API mode report_progress and validate_status return    *)
(* success=False exactly when the credential is missing or the placeholder *)
(* (error_code 1, the GeminiAPIKeyError message); on every other backend   *)
(* failure (client package missing, every call failing) they return        *)
(* success=True, while query returns success=False on each such failure.   *)
C3_SoftFailureExceptCredential ==
    /\ (ApiDone("report_progress") \/ ApiDone("validate_status"))
       => /\ response # None
          /\ response[1].success <=> ~CredentialUnusable
          /\ ~response[1].success
             => /\ response[1].error_code = 1
                /\ raised # None
                /\ raised[1].cls = "GeminiAPIKeyError"
                /\ response[1].error_message = Some(raised[1].msg)
    /\ (ApiDone("query") /\ raised # None)
       => (response # None /\ ~response[1].success)

C3_Witness ==
    /\ ApiDone("validate_status") \/ ApiDone("report_progress")
    /\ ~CredentialUnusable
    /\ \/ ~genai_installed
       \/ (Len(events) > 0 /\ \A i \in 1..Len(events) : CallRaised(events[i]))
    /\ response # None
    /\ response[1].success

(* C4: in API mode with a configured credential, report_progress against a *)
(* service whose every call fails returns success=True with a degraded     *)
(* acknowledgment that contains the phase number and the status and marks  *)
(* the API as unavailable; no failure envelope, no exception.              *)
C4_ReportProgressDegrades ==
    ( /\ ApiDone("report_progress")
      /\ ~CredentialUnusable
      /\ Len(events) > 0
      /\ \A i \in 1..Len(events) : IsCall(events[i]) => CallRaised(events[i]) )
    => /\ response # None
       /\ response[1].success
       /\ response[1].error_code = 0
       /\ response[1].error_message = None
       /\ Contains(response[1].content, "Phase " \o ToString(api_op.phase) \o " ")
       /\ Contains(response[1].content, "'" \o api_op.status \o "'")
       /\ Contains(response[1].content, "(API unavailable)")
       /\ raised = None
       /\ CallCount = gemini_provider.retry_count

C4_Witness ==
    /\ ApiDone("report_progress")
    /\ ~CredentialUnusable
    /\ api_op.phase = 2
    /\ api_op.status = "blocked"
    /\ Len(events) = 5
    /\ \A i \in 1..Len(events) : IsCall(events[i]) => CallRaised(events[i])
    /\ response # None
    /\ response[1].success

(* C5: with GEMINI_API_KEY unset, empty or the placeholder, an API-mode     *)
(* operation ends with the credential error (GeminiAPIKeyError) before any *)
(* call to the service: zero call attempts and zero backoff sleeps.        *)
C5_MissingKeyFailsFast ==
    (mode = "api" /\ CredentialUnusable /\ api_pc # "idle")
    => /\ api_pc = "done"
       /\ events = <<>>
       /\ CallCount = 0
       /\ SleepCount = 0
       /\ ~gemini_provider.created
       /\ raised # None
       /\ raised[1].cls = "GeminiAPIKeyError"
       /\ response # None
       /\ ~response[1].success
       /\ response[1].error_code = 1
       /\ response[1].error_message = Some(raised[1].msg)

C5_Witness ==
    /\ mode = "api"
    /\ api_key_env.set
    /\ api_key_env.value = "your_api_key_here"
    /\ genai_installed
    /\ ApiDone("query")
    /\ ops_done = 2
    /\ raised # None
    /\ raised[1].cls = "GeminiAPIKeyError"

(* C6: GeminiProvider.query never returns an empty string as a successful  *)
(* result, so an API-mode query envelope with success=True always has      *)
(* non-empty content.                                                      *)
C6_QueryNeverEmptySuccess ==
    (ApiDone("query") /\ response # None /\ response[1].success)
    => response[1].content # ""

-----------------------------------------------------------------------------
(* Claims on fetch_next.py                                                 *)

\* the k-th name of the documented sequence <stem>_<date>.md, <stem>_<date>_1.md, ...
ArchiveNameAt(stem, date, k) ==
    IF k = 0 THEN stem \o "_" \o date \o ".md"
    ELSE stem \o "_" \o date \o "_" \o ToString(k) \o ".md"

ArchiveIndexes == 0..(MaxArchiveCalls + 3)

LastArchiveResult == archive_results[Len(archive_results)]

\* One call of archive_milestone, seen as a step from the state before it
C7_Call ==
    (archive_results' # archive_results) =>
        LET r == archive_results'[Len(archive_results')]
        IN  /\ ms_files' = ms_files
            /\ \A f \in DOMAIN hist_files :
                  f \in DOMAIN hist_files' /\ hist_files'[f] = hist_files[f]
            /\ ~r.ok => hist_files' = hist_files
            /\ r.ok =>
                  /\ DOMAIN hist_files' = DOMAIN hist_files \cup {r.archive_path}
                  /\ r.archive_path \notin DOMAIN hist_files
                  /\ hist_files'[r.archive_path] = ms_files[cur.path]
                  /\ \E k \in ArchiveIndexes :
                        /\ r.archive_path = ArchiveNameAt(Stem(cur.path), today, k)
                        /\ \A j \in 0..(k - 1) :
                              ArchiveNameAt(Stem(cur.path), today, j) \in DOMAIN hist_files

\* Successful calls on one date take their names in the order of the sequence
C7_InOrder ==
    \A i, j \in 1..Len(archive_results) :
       \A d \in {Dates[1], Dates[2]} :
          (/\ i < j
           /\ archive_results[i].ok /\ archive_results[j].ok
           /\ StartsWith(archive_results[i].archive_path, Stem(cur.path) \o "_" \o d)
           /\ StartsWith(archive_results[j].archive_path, Stem(cur.path) \o "_" \o d))
          => \E a, b \in ArchiveIndexes :
                /\ a < b
                /\ archive_results[i].archive_path = ArchiveNameAt(Stem(cur.path), d, a)
                /\ archive_results[j].archive_path = ArchiveNameAt(Stem(cur.path), d, b)

\* C7: every successful archive_milestone call creates one new file in the
\* history directory, named by the first free name of <stem>_<date>.md,
\* <stem>_<date>_1.md, <stem>_<date>_2.md, ... and holding the content of the
\* source; no file that was in history before the call is removed or changed;
\* a failed call leaves history as it was; the source file keeps its content.
C7_ArchiveCopiesNeverOverwrites == [][C7_Call]_vars /\ []C7_InOrder

\* Two successful calls on the same source and date: the plain name, then _1
C7_Witness ==
    /\ Len(archive_results) >= 2
    /\ archive_results[1].ok /\ archive_results[2].ok
    /\ archive_results[1].archive_path = ArchiveNameAt("M1_Setup", Dates[1], 0)
    /\ archive_results[2].archive_path = ArchiveNameAt("M1_Setup", Dates[1], 1)
    /\ {archive_results[1].archive_path, archive_results[2].archive_path}
          \subseteq DOMAIN hist_files
    /\ cur.path \in DOMAIN ms_files

IsPrefix(s, t) == Len(s) <= Len(t) /\ SubSeq(t, 1, Len(s)) = s

ArchivingRun == ~args.no_archive /\ ~args.dry_run

\* C8 as stated: a run without --no-archive and --dry-run that has written the
\* next milestone file has made the archive copy before, and drafted between.
C8_WrittenOnlyAfterArchiveCopy ==
    (ArchivingRun /\ Len(steps) > 0 /\ steps[Len(steps)] = "written") =>
        /\ steps = <<"archived", "drafted", "written">>
        /\ LastArchiveResult.archive_path \in DOMAIN hist_files

\* C8, amended: in a run without --no-archive and --dry-run the steps are the
\* archive step, then the draft, then the write; the archive step has either
\* made the copy of the current milestone, or it failed and the run went on
\* because of --force or because the operator confirmed to continue.
C8_ArchiveStepThenDraftThenWrite ==
    ArchivingRun =>
        /\ \/ IsPrefix(steps, <<"archived", "drafted", "written">>)
           \/ IsPrefix(steps, <<"archive_failed", "drafted", "written">>)
        /\ f_pc \in {"query", "write"} => Len(steps) >= 1
        /\ (Len(steps) >= 1 /\ steps[1] = "archived") =>
              /\ LastArchiveResult.ok
              /\ LastArchiveResult.archive_path \in DOMAIN hist_files
              /\ hist_files[LastArchiveResult.archive_path] = ms_files[cur.path]
        /\ (Len(steps) >= 2 /\ steps[1] = "archive_failed") =>
              \/ args.force
              \/ /\ Len(prompts) > 0
                 /\ prompts[Len(prompts)] =
                       [prompt |-> "Archive failed. Continue anyway?", answer |-> "yes"]

\* A run that wrote the next milestone after its archive step had failed and
\* the operator had confirmed to continue
C8_Witness ==
    /\ ArchivingRun /\ ~args.force
    /\ steps = <<"archive_failed", "drafted", "written">>
    /\ exit_code = 0
    /\ next_path \in DOMAIN ms_files

\* C9: a declined confirmation prompt ends the run with exit code 4.
C9_DeclineExitsCancelled ==
    \A i \in 1..Len(prompts) :
       prompts[i].answer = "no" => f_pc = "exit" /\ exit_code = 4

\* C10: with --force no confirmation prompt is issued and the run never waits
\* for an answer to one.
C10_ForceNeverPrompts ==
    args.force =>
        /\ prompts = <<>>
        /\ f_pc \notin {"confirm_proceed", "confirm_overwrite", "confirm_archive"}

-----------------------------------------------------------------------------
(* Claims on config.py and on the mode selection                           *)

\* the Lead DEV mode the configuration holds: lead_dev.mode of the merged tree
ConfiguredMode == ConfigGet(_config, <<"lead_dev", "mode">>, NoneVal)

\* C11: the mode is the explicit argument if one is given, else the Lead DEV
\* mode of the configuration if it is stub or api, and INTERACTIVE only when
\* neither is present.
C11_ModePrecedence ==
    iface.state # "none" =>
        /\ iface.mode_arg \in InterfaceModes =>
              iface.state = "constructed" /\ mode = iface.mode_arg
        /\ (iface.mode_arg = "" /\ ConfiguredMode.t = "str"
                /\ ConfiguredMode.s \in {"stub", "api"}) =>
              iface.state = "constructed" /\ mode = ConfiguredMode.s
        /\ (iface.mode_arg = "" /\ iface.state = "constructed" /\ mode = "interactive") =>
              ~Truthy(ConfiguredMode)

\* the document Config loads, None when there is none to load
LoadedDoc ==
    LET path == IF environ["HMAS_CONFIG_PATH"] # None
                THEN environ["HMAS_CONFIG_PATH"][1] ELSE "tools/config.yaml"
        file == cfg_files[path]
    IN  IF yaml_available /\ file.exists /\ file.readable /\ file.parses
        THEN file.doc ELSE NoneVal

Absent == StrVal("<absent>")

\* the value the loaded file gives section.key in its bridge section
FileValue(m) == ConfigGet(LoadedDoc, <<"bridge", m.section, m.key>>, Absent)

\* the value of an environment variable as Config stores it
EnvValue(m) ==
    IF m.key = "max_tokens" THEN IntVal(PyInt(environ[m.env_var][1]).n)
    ELSE StrVal(environ[m.env_var][1])

EnvWellFormed ==
    environ["HMAS_CONTEXT_MAX_TOKENS"] # None =>
        PyInt(environ["HMAS_CONTEXT_MAX_TOKENS"][1]).ok

\* whether the loaded file puts a value that is no mapping in place of the section
SectionReplaced(m) ==
    LET sec == ConfigGet(LoadedDoc, <<"bridge", m.section>>, Absent)
    IN  sec # Absent /\ sec.t # "dict"

\* C12: for each key of the environment allow-list, once Config() has been
\* called with well-formed environment values, Config.get returns the
\* environment value if the variable is set, whatever the file holds; else the
\* value of the config file if the file sets the key; else the built-in
\* default (the default of the call, where the file replaced the section).
C12_EnvOverFileOverDefault ==
    (cf_pc \in {"ready", "raised"} /\ EnvWellFormed) =>
        \A i \in 1..Len(ENV_MAPPINGS) :
           LET m == ENV_MAPPINGS[i]
               v == ConfigGet(_config, <<m.section, m.key>>, NoneVal)
           IN  /\ cf_pc = "ready"
               /\ IF environ[m.env_var] # None THEN v = EnvValue(m)
                  ELSE IF FileValue(m) # Absent THEN v = FileValue(m)
                  ELSE IF SectionReplaced(m) THEN v = NoneVal
                  ELSE v = ConfigGet(DEFAULTS, <<m.section, m.key>>, NoneVal)

\* C13: Config() never raises.
C13_ConstructionNeverRaises == cf_pc # "raised" /\ cf_raised = None

-----------------------------------------------------------------------------
(* Claims on the milestone lookup and the completion check                 *)

\* the file names of the milestones directory of the form M<digits>_<slug>.md
MilestoneFiles == {f \in DOMAIN ms_files : MilestonePattern(f).match}

\* C14: the auto-detected current milestone is none iff no file name has the
\* form M<digits>_<slug>.md; otherwise it is an entry of the highest number n
\* with id "M" n, and it is the same whatever the order of the directory
\* listing is.
C14_FindCurrentBySetOnly ==
    args.milestone = "" =>
        /\ (f_pc = "exit" /\ ~cur.found) => MilestoneFiles = {}
        /\ f_pc = "check_complete" =>
              /\ cur.found
              /\ cur.path \in MilestoneFiles
              /\ cur.num = MilestonePattern(cur.path).num
              /\ \A f \in MilestoneFiles : MilestonePattern(f).num <= cur.num
              /\ cur.id = "M" \o ToString(cur.num)
              /\ \A r \in find_current_milestone(DOMAIN ms_files) : r = cur

\* the text of the unchecked item a line holds ('- [ ] <text>'), if it holds one
ItemOfLine(line) ==
    LET a == SkipWs(line, 1)
        b == SkipWs(line, a + 1)
        c == SkipWs(line, b + 1)
        g == SkipWs(line, c + 1)
    IN  IF Ch(line, a) = "-" /\ Ch(line, b) = "[" /\ Ch(line, c) = "]" /\ g <= Len(line)
        THEN <<Strip(SubSeq(line, g, Len(line)))>>
        ELSE <<>>

\* the unchecked items of a document, line by line, in document order
RECURSIVE ItemsOfLines(_)
ItemsOfLines(lines) ==
    IF Len(lines) = 0 THEN <<>>
    ELSE ItemOfLine(lines[1]) \o ItemsOfLines(Tail(lines))

UncheckedItems(content) == ItemsOfLines(SplitLines(content))

\* C15: check_milestone_complete returns (True, []) iff the document has no
\* unchecked item; otherwise False with one entry per unchecked item, in
\* document order, each the text of that item. Without --force the run asks
\* "Proceed anyway?" exactly for the documents that have an unchecked item.
C15_IncompleteItemsExact ==
    f_pc \in {"confirm_proceed", "check_next"} =>
        LET content == ms_files[cur.path]
        IN  /\ check_milestone_complete(content) =
                  [is_complete |-> UncheckedItems(content) = <<>>,
                   incomplete |-> UncheckedItems(content)]
            /\ (f_pc = "confirm_proceed") => UncheckedItems(content) # <<>>

-----------------------------------------------------------------------------
(* Claims on the document selection of ContextAggregator (SpecAgg)         *)

\* The documents a query type asks for, in order
SelectionOrder(query_type) ==
    CASE query_type = "architectural" -> <<"architecture", "roadmap", "milestone">>
      [] query_type \in {"implementation", "general"} -> <<"architecture", "milestone">>
      [] OTHER -> <<"milestone">>

\* The file behind a slot of the order; the milestone slot is empty when no
\* milestone is given
SlotFile(slot, milestone, milestone_file) ==
    CASE slot = "architecture" -> architecture_file
      [] slot = "roadmap" -> roadmap_file
      [] OTHER -> IF milestone # "" THEN milestone_file ELSE NoPath

FileExists(d) == d.exists
FileReadable(d) == d.readable

\* The slots of a query type with the files that do not exist left out
ExpectedSelection(query_type, milestone, milestone_file) ==
    LET order == SelectionOrder(query_type)
    IN  SelectSeq([i \in 1..Len(order) |->
                     SlotFile(order[i], milestone, milestone_file)], FileExists)

\* '=== <filename> ===', a line end, the content; joined by a blank line
Rendered(docs) ==
    Join([i \in 1..Len(docs) |->
            "=== " \o docs[i].name \o " ===" \o "\n" \o docs[i].text], "\n\n")

\* The selection is the one of the query type, for a file the milestone
\* lookup can return
C16_SelectionInOrder ==
    \E mf \in _find_milestone_spec(ag_args.milestone) :
        ag_documents = ExpectedSelection(ag_args.query_type, ag_args.milestone, mf)

-----------------------------------------------------------------------------
(* Claims on the milestone-spec lookup of ContextAggregator (SpecAgg)      *)

\* The milestone spec among the selected documents (NoPath when there is none)
SelectedMilestoneSpec ==
    IF Len(ag_documents) > 0 /\ ag_documents[Len(ag_documents)].name \in MsNames
    THEN ag_documents[Len(ag_documents)]
    ELSE NoPath

\* <milestone>.md and its space-substituted variant, in the order tried
ExactNames(milestone) ==
    <<milestone \o ".md", ReplaceChar(milestone, "_", " ") \o ".md">>

\* The exact names that exist in the milestones directory
ExactHits(milestone) ==
    {i \in 1..2 : ExactNames(milestone)[i] \in milestones_dir.files}

\* The files whose name contains the milestone token, case-insensitively
ContainingFiles(milestone) ==
    {f \in milestones_dir.files : Contains(Lower(f), Lower(milestone))}

(* C17: the milestone-spec lookup tries the exact names first: when        *)
(* <milestone>.md or its space-substituted variant exists in the           *)
(* milestones directory, that file is the one returned; only when no       *)
(* exact-name file exists is a file returned whose name contains the       *)
(* milestone token case-insensitively.                                     *)
C17_ExactNameFirst ==
    (ag_pc = "returned" /\ ag_args.milestone # "" /\ milestones_dir.exists) =>
        LET hits == ExactHits(ag_args.milestone)
            first == CHOOSE i \in hits : \A j \in hits : i <= j
        IN  /\ hits # {} =>
                  SelectedMilestoneSpec.name = ExactNames(ag_args.milestone)[first]
            /\ hits = {} =>
                  \/ SelectedMilestoneSpec.name \in ContainingFiles(ag_args.milestone)
                  \/ /\ SelectedMilestoneSpec = NoPath
                     /\ ContainingFiles(ag_args.milestone) = {}

-----------------------------------------------------------------------------
(* Claims on the interface modes (SpecInterface)                           *)

\* The lines input() gave to the operation that has returned
RECURSIVE LinesRead(_)
LinesRead(evs) ==
    IF Len(evs) = 0 THEN <<>>
    ELSE (IF evs[1].kind = "input" /\ ~evs[1].out.raises
          THEN <<evs[1].out.text>> ELSE <<>>)
         \o LinesRead(Tail(evs))

\* The operator's response: what was typed up to the submission, trimmed
OperatorResponse == Strip(Join(LinesRead(events), "\n"))

InteractiveDone(name) ==
    mode = "interactive" /\ api_pc = "done" /\ api_op.name = name

(* C18: in interactive mode an operator response that is empty after       *)
(* trimming (an immediately closed input stream included) makes query      *)
(* return success=False with error_code 2 and 'No response provided',      *)
(* while report_progress and validate_status return success=True with a    *)
(* fixed acknowledgment text; a non-empty response is returned trimmed as  *)
(* content with success=True by all three operations.                      *)
C18_InteractiveEmptyResponse ==
    (mode = "interactive" /\ api_pc = "done") =>
        LET r == response[1]
        IN  IF OperatorResponse = ""
            THEN /\ api_op.name = "query" =>
                       /\ ~r.success
                       /\ r.content = ""
                       /\ r.error_code = 2
                       /\ r.error_message = Some("No response provided")
                 /\ api_op.name = "report_progress" =>
                       /\ r.success
                       /\ r.content = "Acknowledged: Phase " \o ToString(api_op.phase)
                                      \o " marked as '" \o api_op.status \o "'"
                 /\ api_op.name = "validate_status" =>
                       /\ r.success
                       /\ r.content = "Status validated - no issues noted"
            ELSE /\ r.success
                 /\ r.content = OperatorResponse
                 /\ r.error_code = 0

\* A query whose input stream was closed at once, after a progress report
\* that was answered with text
C18_Witness ==
    /\ InteractiveDone("query")
    /\ events = <<EOFEvent>>
    /\ ~response[1].success
    /\ response[1].error_code = 2
    /\ ops_done = 2

\* The request line each mode logs for an operation
RequestLineOf(m, op) ==
    CASE m = "api" -> RequestLine(op)
      [] m = "stub" /\ op.name = "query" -> "QUERY: " \o op.question
      [] m = "stub" /\ op.name = "report_progress" ->
            "PROGRESS: Phase " \o ToString(op.phase) \o " (" \o op.status \o ") - "
            \o op.milestone \o " - " \o op.message
      [] m = "stub" -> "STATUS CHECK: Validation requested"
      [] op.name = "query" -> "INTERACTIVE QUERY: " \o op.question
      [] op.name = "report_progress" ->
            "INTERACTIVE PROGRESS: Phase " \o ToString(op.phase) \o " (" \o op.status
            \o ") - " \o op.milestone
      [] OTHER -> "INTERACTIVE STATUS CHECK: Validation requested"

(* C19: every interface operation in every mode appends one line to the    *)
(* log sink before the call and another one after it: when an operation    *)
(* has returned its envelope, each operation so far has added at least two *)
(* lines, and the log ends with the request line of the operation followed *)
(* by its outcome line. (Stated for a sink that can be written.)           *)
C19_TwoLogLinesPerOperation ==
    (log_writable /\ api_pc = "done" /\ response # None) =>
        /\ Len(log) >= 2 * ops_done
        /\ Len(log) >= 2
        /\ log[Len(log) - 1] = RequestLineOf(mode, api_op)
        /\ log[Len(log)] # RequestLineOf(mode, api_op)

-----------------------------------------------------------------------------
(* Claims on the output file of fetch_next (SpecFetch)                     *)

\* M<next>_<title>.md, and M<next>_<title>_<n>.md
OutputName(n) ==
    "M" \o ToString(cur.num + 1) \o "_" \o draft.title
    \o (IF n = 0 THEN "" ELSE "_" \o ToString(n)) \o ".md"

\* The name the run has to write to, given the files that exist: the plain
\* name when it is free, else the one with the smallest free n >= 1
FreeOutputName(existing) ==
    LET free == {n \in 0..Cardinality(existing) : OutputName(n) \notin existing}
    IN  OutputName(CHOOSE n \in free : \A m \in free : n <= m)

\* The step of main that writes the next milestone file
C20_Write ==
    (f_pc = "write" /\ ms_files' # ms_files /\ ~args.force) =>
        /\ next_path = FreeOutputName(DOMAIN ms_files)
        /\ next_path \notin DOMAIN ms_files
        /\ DOMAIN ms_files' = DOMAIN ms_files \cup {next_path}
        /\ ms_files'[next_path] = draft.content
        /\ \A f \in DOMAIN ms_files : ms_files'[f] = ms_files[f]

(* C20: without --force fetch_next never overwrites an existing file of    *)
(* the milestones directory: when M<next>_<title>.md exists, the file      *)
(* written is M<next>_<title>_<n>.md for the smallest n >= 1 whose name is *)
(* free, and every file that existed before keeps its content.             *)
C20_NoOverwriteWithoutForce == [][C20_Write]_vars

\* A run without --force that found M2_Continuation.md and
\* M2_Continuation_1.md and has written M2_Continuation_2.md
C20_Witness ==
    /\ ~args.force
    /\ f_pc = "exit"
    /\ exit_code = 0
    /\ Len(steps) > 0
    /\ steps[Len(steps)] = "written"
    /\ next_path = "M2_Continuation_2.md"
    /\ {"M2_Continuation.md", "M2_Continuation_1.md", next_path} \subseteq DOMAIN ms_files
    /\ ms_files[next_path] = draft.content
    /\ ms_files["M2_Continuation.md"] # draft.content

-----------------------------------------------------------------------------
(* Claims on what a fetch_next run leaves behind (SpecFetch)               *)

\* Every file of the directory is still there with its content
FilesKept(before, after) ==
    \A f \in DOMAIN before : f \in DOMAIN after /\ after[f] = before[f]

\* One step of main: the milestone files that exist stay as they are, the
\* history keeps its copies, and the only files that appear are the next
\* milestone file and one archive copy
C21_Step ==
    /\ FilesKept(ms_files, ms_files')
    /\ FilesKept(hist_files, hist_files')
    /\ DOMAIN ms_files' \subseteq DOMAIN ms_files \cup {next_path}
    /\ Cardinality(DOMAIN hist_files' \ DOMAIN hist_files) <= 1

(* C21: fetch_next never deletes or changes the content of a milestone     *)
(* file that existed before the run, on any path and with any flags: the   *)
(* current milestone file stays in place unchanged, and the only files the *)
(* run creates are the archive copy in history and the new next-milestone  *)
(* file.                                                                   *)
C21_ExistingFilesUntouched == [][C21_Step]_vars

\* One step of main under --dry-run: both directories stay as they are
C22_Step ==
    args.dry_run => (ms_files' = ms_files /\ hist_files' = hist_files)

-----------------------------------------------------------------------------
(* Claims on the input reading of the interactive mode (SpecInterface)     *)

\* The positions of the stream at which the second of two consecutive empty
\* lines stands
DoubleEmptyAt(stream) ==
    {i \in 2..Len(stream) : stream[i] = "" /\ stream[i - 1] = ""}

\* The number of lines read up to the stop: up to the first such position,
\* or the whole stream when there is none
StopPoint(stream) ==
    IF DoubleEmptyAt(stream) = {} THEN Len(stream)
    ELSE CHOOSE i \in DoubleEmptyAt(stream) : \A j \in DoubleEmptyAt(stream) : i <= j

\* One interactive operation: the lines it read, what it left, what it returned
C23_Step ==
    (mode = "interactive" /\ ops_done' = ops_done + 1) =>
        LET n    == StopPoint(stdin)
            text == Strip(Join(SubSeq(stdin, 1, n), "\n"))
        IN  /\ LinesRead(events') = SubSeq(stdin, 1, n)
            /\ stdin' = SubSeq(stdin, n + 1, Len(stdin))
            /\ (events'[Len(events')] = EOFEvent) <=> (DoubleEmptyAt(stdin) = {})
            /\ text # "" => response'[1].content = text

(* C23: interactive input reading stops at the first point where two       *)
(* consecutive empty lines have been read or the input stream ends,        *)
(* whichever comes first; a single empty line between non-empty lines does *)
(* not end the input and is kept inside the response; the returned text is *)
(* the lines read before the stop, joined by newlines and trimmed, and no  *)
(* line after the stop point is consumed.                                  *)
C23_InputStopsAtDoubleEmpty == [][C23_Step]_vars

\* An operation answered with two paragraphs: the empty line between them is
\* inside the content, and the line behind the two empty lines is still unread
C23_Witness ==
    /\ mode = "interactive"
    /\ api_pc = "done"
    /\ ops_done = 1
    /\ response[1].content = "Use JWT tokens.\n\nRotate the keys."
    /\ stdin = <<"left unread">>
    /\ Len(events) = 5

-----------------------------------------------------------------------------
(* Claims on context_used (SpecAsk)                                        *)

\* The names of the documents the aggregator rendered, in selection order
IncludedNames ==
    LET r == SelectSeq(ag_documents, FileReadable)
    IN  [i \in 1..Len(r) |-> r[i].name]

\* The query of ask_lead has returned a success envelope
AskSucceeded ==
    /\ ag_pc = "returned"
    /\ api_pc = "done"
    /\ api_op.name = "query"
    /\ api_op.context = context
    /\ response # None
    /\ response[1].success

(* C24: for a successful query in any mode, context_used is exactly the    *)
(* ordered list of the names of the documents the aggregator included in   *)
(* the documents section (one entry per document, in selection order,      *)
(* nothing else), and it is empty when no document was included. Where the *)
(* size limit cut the section, only a leading part of the list is asked    *)
(* for.                                                                    *)
C24_ContextUsedIsIncluded ==
    AskSucceeded =>
        IF context["documents"] = ag_aggregated
        THEN response[1].context_used = IncludedNames
        ELSE IsPrefix(response[1].context_used, IncludedNames)

-----------------------------------------------------------------------------
(* Claims on the response envelope (SpecInterface)                         *)

(* C25: every response envelope returned by an interface operation in any  *)
(* mode is consistent: success=True implies error_code = 0 and no          *)
(* error_message; success=False implies error_code is 1 or 2, an           *)
(* error_message is present and content is empty.                          *)
C25_EnvelopeConsistent ==
    response # None =>
        LET r == response[1]
        IN  /\ r.success => (r.error_code = 0 /\ r.error_message = None)
            /\ ~r.success =>
                  /\ r.error_code \in {1, 2}
                  /\ r.error_message # None
                  /\ r.content = ""

\* A query in API mode that the service failed on every attempt
C25_Witness ==
    /\ mode = "api"
    /\ api_pc = "done"
    /\ api_op.name = "query"
    /\ response # None
    /\ ~response[1].success
    /\ response[1].error_code = 1
    /\ response[1].error_message # None
    /\ Len(events) > 0

-----------------------------------------------------------------------------
(* Claims on the retry loops of GeminiProvider (SpecApi)                   *)

\* The call gave response text
YieldedText(e) == IsCall(e) /\ ~e.out.raises /\ e.out.text # ""

\* The call is a failed attempt of the loop that runs: for query an exception
\* or an empty text, for report_progress an exception
FailedAttempt(e) ==
    IF api_op.name = "query" THEN CallFailed(e) ELSE CallRaised(e)

\* The failed attempts that were followed by another attempt
RetriedFailures ==
    {i \in 1..Len(events) :
        /\ FailedAttempt(events[i])
        /\ \E j \in (i + 1)..Len(events) : IsCall(events[j])}

(* C26: in the retry loops of GeminiProvider.query and report_progress the *)
(* first attempt that yields response text ends the loop: no call and no   *)
(* sleep follows it; a backoff sleep happens only after a failed attempt   *)
(* that is followed by another attempt, never after the last attempt, so   *)
(* when the loop has ended sleeps = failed attempts followed by a retry.   *)
C26_SleepOnlyBetweenAttempts ==
    (mode = "api" /\ api_op.name \in {"query", "report_progress"}) =>
        /\ \A i \in 1..Len(events) :
              /\ YieldedText(events[i]) => i = Len(events)
              /\ events[i].kind = "sleep" =>
                    /\ i > 1
                    /\ FailedAttempt(events[i - 1])
                    /\ i < Len(events) => IsCall(events[i + 1])
              /\ (IsCall(events[i]) /\ i < Len(events)) => events[i + 1].kind = "sleep"
        /\ CallCount <= gemini_provider.retry_count
        /\ api_pc = "done" =>
              /\ Len(events) > 0 => IsCall(events[Len(events)])
              /\ SleepCount = Cardinality(RetriedFailures)

\* A query that failed once, slept, and got text on the second of three
\* attempts: the third attempt and the second sleep never happen
C26_Witness ==
    /\ mode = "api"
    /\ api_pc = "done"
    /\ api_op.name = "query"
    /\ gemini_provider.retry_count = 3
    /\ Len(events) = 3
    /\ FailedAttempt(events[1])
    /\ events[2].kind = "sleep"
    /\ YieldedText(events[3])
    /\ response[1].success

-----------------------------------------------------------------------------
(* Claims on the progression of the current milestone (SpecFetch)          *)

\* A run that detected its milestone itself, wrote the next one and ended
\* with exit code 0
AutoRunWritten ==
    /\ args.milestone = ""
    /\ ~args.dry_run
    /\ f_pc = "exit"
    /\ exit_code = 0

(* C27: after a fetch_next run that auto-detects the current milestone     *)
(* with number n and ends with exit code 0 without --dry-run,              *)
(* find_current_milestone on the same directory returns number n+1 and the *)
(* path of the file just written: a successful run raises the current      *)
(* milestone number by exactly one.                                        *)
C27_CurrentAdvancesByOne ==
    AutoRunWritten =>
        /\ steps[Len(steps)] = "written"
        /\ next_path \in DOMAIN ms_files
        /\ find_current_milestone(DOMAIN ms_files) =
               {[found |-> TRUE, id |-> "M" \o ToString(cur.num + 1),
                 path |-> next_path, num |-> cur.num + 1]}

\* A run over a directory with two files of number 2: M3_Continuation.md is
\* written and is the one current milestone afterwards
C27_Witness ==
    /\ AutoRunWritten
    /\ cur.num = 2
    /\ {"M2_Auth.md", "M2_Continuation.md"} \subseteq DOMAIN ms_files
    /\ next_path = "M3_Continuation.md"
    /\ ms_files[next_path] = draft.content

-----------------------------------------------------------------------------
(* Claims on the runs that end without progression (SpecFetch)             *)

\* Every step that touches a directory or queries Lead DEV leaves its mark
\* in the steps of the run
C28_Step ==
    steps' = steps =>
        /\ ms_files' = ms_files
        /\ hist_files' = hist_files
        /\ draft' = draft
        /\ archive_results' = archive_results

(* C28: a fetch_next run that ends with exit code 2 (milestone not found,  *)
(* or next milestone exists and is incomplete) or exit code 4 (cancelled   *)
(* by the operator) made no archive copy, sent no Lead DEV query and wrote *)
(* no milestone file: the milestones and history directories are           *)
(* unchanged.                                                              *)
C28_NoEffectOnExit2Or4 ==
    /\ [][C28_Step]_vars
    /\ []((f_pc = "exit" /\ exit_code \in {2, 4}) =>
             /\ steps = <<>>
             /\ archive_results = <<>>
             /\ draft = NoDraft
             /\ next_path = "")

\* A run with --force that found an incomplete next milestone and was told
\* not to overwrite it
C28_Witness ==
    /\ f_pc = "exit"
    /\ exit_code = 4
    /\ args.force
    /\ ~args.no_archive
    /\ ~args.dry_run
    /\ Len(prompts) = 1
    /\ prompts[1].answer = "no"
    /\ steps = <<>>


\* ---- claim C29
\* When report_progress or status_check runs without --milestone, the
\* milestone it detects is the highest-numbered milestone file, the one
\* find_current_milestone returns for the directory ("Unknown" when it returns
\* none), whatever the order of the directory listing.
C29_DetectsCurrentMilestone ==
    (/\ t_cmd \in {"report_progress", "status_check"}
     /\ t_pc = "milestone"
     /\ t_args.milestone = "")
    => \E c \in find_current_milestone(milestones_dir.files) :
           t_milestone = (IF c.found THEN Stem(c.path) ELSE "Unknown")

\* ---- claim C30
\* handoff --next, in a directory where find_current_milestone finds a current
\* milestone, goes on with a milestone file: it never holds a missing
\* milestone path after the target is determined and never ends in a fault.
C30_NextResolvesMilestone ==
    (/\ t_cmd = "handoff"
     /\ t_args.milestone = ""
     /\ t_args.next
     /\ t_pc # "start"
     /\ \E c \in find_current_milestone(milestones_dir.files) : c.found)
    => /\ t_pc \in {"resolved", "extracted"}
       /\ t_milestone_path # None
       /\ t_fault = None

====
